---- MODULE Spec2Model ----
(***************************************************************************)
(* A model of the ampullator signal graph (src/src/graph.rs): GenGraph     *)
(* with its node list, name index, edges, per-output sample buffers and    *)
(* time counter; add_node, connect, the Kahn scheduler, the block          *)
(* processor and the output-name query; and the unit generators the graph  *)
(* claims need (UGConst, UGSum, UGClock from src/src/ugen_core.rs).        *)
(*                                                                         *)
(* Conventions.  Strings are sequences of one-character strings, so that  *)
(* split_name works on the text of a label.  NodeIds and port indices are  *)
(* 0-based as in the source; nodes[id + 1] is the node with NodeId id.     *)
(* A panic ends the program: the state is as the panic left it, the kind    *)
(* of the panic is in `result`, and no further call is made.               *)
(***************************************************************************)
EXTENDS Integers, Sequences, FiniteSets, TLC

\* ------------------------------------------------------------------ bounds

\* Most nodes registered.
MaxNodes == 2

\* Most edges connected, over all nodes.
MaxEdges == 2

\* Most process() calls.
MaxBlocks == 2

\* ------------------------------------------------------- graph parameters

\* GenGraph::new(sample_rate, buffer_size): the block length of the graph.
buffer_size == 2

\* GenGraph::new(sample_rate, buffer_size): samples per second.
sample_rate == 4

\* UGConst::new(value) of every constant node of the model.
ConstValue == 1

\* UGClock::new(value, UnitRate::Samples): the period, in samples.
ClockValue == 2

\* ----------------------------------------------------------------- strings

S_out == <<"o", "u", "t">>
S_in == <<"i", "n">>
S_in1 == <<"i", "n", "1">>
S_in2 == <<"i", "n", "2">>

\* Node names offered to add_node, in the order fresh names are taken.
NamePool == <<  <<"a">>, <<"b">>, <<"c">>, <<"d">>, <<"e">>  >>

\* format!("{}.{}", name, port)
Label(name, port) == name \o <<".">> \o port

\* A label without the separator.
Malformed == <<"a">>

\* The position of the last '.' in the first i elements of s, or 0.
RECURSIVE LastDot(_, _)
LastDot(s, i) ==
    IF i = 0 THEN 0
    ELSE IF s[i] = "." THEN i
    ELSE LastDot(s, i - 1)

\* split_name: s.rsplit_once('.'), or a panic ("none") without a '.'.
split_name(s) ==
    LET p == LastDot(s, Len(s))
    IN IF p = 0
       THEN [ok |-> FALSE, name |-> <<>>, port |-> <<>>]
       ELSE [ok |-> TRUE, name |-> SubSeq(s, 1, p - 1),
             port |-> SubSeq(s, p + 1, Len(s))]

\* --------------------------------------------------------- unit generators

Kinds == {"UGConst", "UGSum", "UGClock"}

\* UGSelect::new(SelectValues, SelectMode, seed) with Some(SelectSeed) for
\* seed, and with None.
SelectKinds == {"UGSelect", "UGSelect_unseeded"}

S_trigger == <<"t", "r", "i", "g", "g", "e", "r">>

S_step == <<"s", "t", "e", "p">>

\* The ports of UGSine, the generator with two outputs.
S_freq == <<"f", "r", "e", "q">>

S_phase == <<"p", "h", "a", "s", "e">>

S_min == <<"m", "i", "n">>

S_max == <<"m", "a", "x">>

S_wave == <<"w", "a", "v", "e">>

\* The second port of UGLowPass.
S_cutoff == <<"c", "u", "t", "o", "f", "f">>

\* Option<Sample>
None == [some |-> FALSE, value |-> 0]

Some(value) == [some |-> TRUE, value |-> value]

\* UGen::default_input of each generator.
default_input(kind, input_name) ==
    CASE kind = "UGClock" /\ input_name = S_in -> Some(1)
      [] kind \in SelectKinds /\ input_name = S_trigger -> Some(0)
      [] kind \in SelectKinds /\ input_name = S_step -> Some(1)
      [] kind = "UGSine" /\ input_name = S_freq -> Some(440)
      [] kind = "UGSine" /\ input_name = S_phase -> Some(0)
      [] kind = "UGSine" /\ input_name = S_min -> Some(-1)
      [] kind = "UGSine" /\ input_name = S_max -> Some(1)
      [] kind = "UGTrigger" /\ input_name = S_freq -> Some(1)
      [] OTHER -> None

\* UGen::input_names of each generator (UGSum::new(2): in1, in2).
input_names(kind) ==
    CASE kind = "UGConst" -> <<>>
      [] kind = "UGSum" -> <<S_in1, S_in2>>
      [] kind = "UGClock" -> <<S_in>>
      [] kind \in SelectKinds -> <<S_trigger, S_step>>
      [] kind = "UGSine" -> <<S_freq, S_phase, S_min, S_max>>
      [] kind = "UGTrigger" -> <<S_freq>>
      [] kind = "UGLowPass" -> <<S_in, S_cutoff>>

\* UGen::output_names of each generator.
output_names(kind) ==
    CASE kind = "UGConst" -> <<S_out>>
      [] kind = "UGSum" -> <<S_out>>
      [] kind = "UGClock" -> <<S_out>>
      [] kind \in SelectKinds -> <<S_out>>
      [] kind = "UGSine" -> <<S_wave, S_trigger>>

\* The 0-based index of the first of names from the i-th on that is wanted,
\* or -1.
RECURSIVE PositionFrom(_, _, _)
PositionFrom(names, wanted, i) ==
    IF i > Len(names) THEN -1
    ELSE IF names[i] = wanted THEN i - 1
    ELSE PositionFrom(names, wanted, i + 1)

\* A lookup that falls back to the first port: position(..).unwrap_or(0).
position_default(names, wanted) ==
    IF PositionFrom(names, wanted, 1) < 0 THEN 0
    ELSE PositionFrom(names, wanted, 1)

\* iter().position(|&name| name == wanted): the 0-based index, or -1.
position(names, wanted) == PositionFrom(names, wanted, 1)

\* slice.get(i).copied().unwrap_or(d), i 0-based.
GetOr(slice, i, d) == IF i < Len(slice) THEN slice[i + 1] ELSE d

\* UGConst::process: every sample is the value.
UGConst_process == [i \in 1..buffer_size |-> ConstValue]

\* UGSum::process with two inputs: out[i] = a[i] + b[i]; indexing an empty
\* (unconnected) slice panics before anything is written.
UGSum_panics(inputs) ==
    buffer_size > 0 /\ \E k \in 1..Len(inputs) : Len(inputs[k]) < buffer_size

UGSum_process(inputs) ==
    [i \in 1..buffer_size |-> inputs[1][i] + inputs[2][i]]

\* UGClock::process with UnitRate::Samples on a block of len samples:
\* hz = sample_rate / value, so phase_inc = 1 / value; the phase is kept as
\* its numerator over value. Sample 0 is 1.0 when the gate is on and leaves
\* the phase alone; every later sample with the gate on advances the phase,
\* wrapping to 0 at >= 1 and is 1.0 exactly when phase < phase_inc. The
\* result also lists the phase after each sample.
RECURSIVE UGClock_run(_, _, _, _, _, _)
UGClock_run(value, len, enabled, phase, i, acc) ==
    IF i >= len THEN acc
    ELSE IF ~(GetOr(enabled, i, 1) * 2 > 1)
         THEN UGClock_run(value, len, enabled, phase, i + 1,
                          [phase |-> phase, out |-> Append(acc.out, 0),
                           phases |-> Append(acc.phases, phase)])
         ELSE LET p1 == phase + 1
                  p2 == IF p1 >= value THEN 0 ELSE p1
              IN UGClock_run(value, len, enabled, p2, i + 1,
                     [phase |-> p2,
                      out |-> Append(acc.out, IF p2 < 1 THEN 1 ELSE 0),
                      phases |-> Append(acc.phases, p2)])

UGClock_process(value, len, enabled, phase) ==
    IF len = 0 THEN [phase |-> phase, out |-> <<>>, phases |-> <<>>]
    ELSE UGClock_run(value, len, enabled, phase, 1,
                     [phase |-> phase,
                      out |-> <<IF GetOr(enabled, 0, 1) * 2 > 1 THEN 1 ELSE 0>>,
                      phases |-> <<phase>>])

\* ---------------------------------------------------------------- UGSelect

\* StdRng, as far as the generators rely on it: a state that the seed fixes,
\* and draws that are functions of the state and advance it.
RngMod == 4

RngStates == 0..(RngMod - 1)

seed_from_u64(s) == (5 * s + 1) % RngMod

rng_next(r) == (5 * r + 3) % RngMod

\* rng.random_range(0..n)
random_range(r, n) == [value |-> r % n, rng |-> rng_next(r)]

\* rng.random_bool(0.5)
random_bool(r) == [value |-> (r \div 2) % 2 = 0, rng |-> rng_next(r)]

Swap(seq, i, j) == [seq EXCEPT ![i] = seq[j], ![j] = seq[i]]

\* slice.shuffle(&mut rng): from the last place down to the second, each place
\* trades its element with that of a place drawn at or below it.
RECURSIVE ShuffleFrom(_, _, _)
ShuffleFrom(seq, i, r) ==
    IF i <= 1 THEN [value |-> seq, rng |-> r]
    ELSE LET d == random_range(r, i)
         IN ShuffleFrom(Swap(seq, i, d.value + 1), i - 1, d.rng)

shuffle(seq, r) == ShuffleFrom(seq, Len(seq), r)

\* A sample is a whole number of 1/scale: x > 0.5, and x.round(), which takes
\* a half away from zero.
Over05(x, scale) == 2 * x > scale

round(x, scale) ==
    IF x >= 0 THEN (2 * x + scale) \div (2 * scale)
    ELSE 0 - ((scale - 2 * x) \div (2 * scale))

ModeSelect == {"Cycle", "Random", "Shuffle", "Walk"}

\* The parameters of the UGSelect nodes of a graph.
SelectValues == <<3, 10, 20>>

SelectMode == "Random"

SelectSeed == 42

\* A constructor that starts the index at the length of the list.
UGSelect_new_len(values, mode, rng) ==
    [values |-> values, mode |-> mode,
     index |-> IF Len(values) >= 1 THEN Len(values) ELSE 1,
     shuffle_remaining |-> <<>>, rng |-> rng]

\* UGSelect::new, the generator's random state given
UGSelect_new(values, mode, rng) ==
    [values |-> values, mode |-> mode,
     index |-> (IF Len(values) >= 1 THEN Len(values) ELSE 1) - 1,
     shuffle_remaining |-> <<>>, rng |-> rng]

\* (0..n).collect()
Indices(n) == [i \in 1..n |-> i - 1]

\* Pops that refill and shuffle the pool before every pop.
RECURSIVE ShufflePops_refilling(_, _)
ShufflePops_refilling(st, count) ==
    IF count = 0 THEN st
    ELSE LET sh == shuffle(Indices(Len(st.values)), st.rng)
             pool == sh.value
         IN ShufflePops_refilling(
                [st EXCEPT !.index = pool[Len(pool)],
                           !.shuffle_remaining = SubSeq(pool, 1, Len(pool) - 1),
                           !.rng = sh.rng],
                count - 1)

\* Shuffle mode: step_size pops, the pool refilled and shuffled when empty.
RECURSIVE ShufflePops(_, _)
ShufflePops(st, count) ==
    IF count = 0 THEN st
    ELSE LET filled == IF st.shuffle_remaining = <<>>
                       THEN LET sh == shuffle(Indices(Len(st.values)), st.rng)
                            IN [st EXCEPT !.shuffle_remaining = sh.value,
                                          !.rng = sh.rng]
                       ELSE st
             pool == filled.shuffle_remaining
         IN ShufflePops([filled EXCEPT
                            !.index = pool[Len(pool)],
                            !.shuffle_remaining = SubSeq(pool, 1, Len(pool) - 1)],
                        count - 1)

\* usize, with UsizeBits bits.
UsizeBits == 4

UsizeMax == 2 ^ UsizeBits - 1

\* x as usize, for a float x without fraction: the cast saturates.
as_usize(x) == IF x < 0 THEN 0 ELSE IF x > UsizeMax THEN UsizeMax ELSE x

\* a + b on usize where the sum is out of range: the wrapped sum, which a
\* build without overflow checks computes (one with them panics).
wrapping_add(a, b) == (a + b) % (UsizeMax + 1)

\* step.get(i).unwrap_or(1.0).round().max(1.0) as usize
StepSize(step, i, scale) ==
    LET r == round(GetOr(step, i, scale), scale)
    IN as_usize(IF r > 1 THEN r ELSE 1)

\* isize, of the width of usize.
IsizeMax == 2 ^ (UsizeBits - 1) - 1

IsizeMin == 0 - 2 ^ (UsizeBits - 1)

InIsize(x) == IsizeMin <= x /\ x <= IsizeMax

\* x as isize for a usize x: the same bits, so the upper half is negative.
as_isize(x) == IF x > IsizeMax THEN x - (UsizeMax + 1) ELSE x

\* A product or sum on isize that is out of range: the wrapped value, which
\* a build without overflow checks computes (one with them panics).
wrapping_isize(x) == ((x - IsizeMin) % (UsizeMax + 1)) + IsizeMin

\* step_size as isize * direction as isize of Walk mode.
StepSigned(step_size, forward) ==
    wrapping_isize(as_isize(step_size) * (IF forward THEN 1 ELSE -1))

\* self.index + step_size of Cycle mode is out of usize's range, or the
\* product or the sum of Walk mode is out of isize's.
Overflows(st, step_size) ==
    \/ st.mode = "Cycle" /\ st.index + step_size > UsizeMax
    \/ /\ st.mode = "Walk"
       /\ LET forward == random_bool(st.rng).value
          IN \/ ~InIsize(as_isize(step_size) * (IF forward THEN 1 ELSE -1))
             \/ ~InIsize(st.index + StepSigned(step_size, forward))

\* The body of the loop of UGSelect::process on a sample with an active
\* trigger: the generator after it has moved its index.
Advance(st, step_size) ==
    LET n == Len(st.values)
    IN CASE st.mode = "Cycle" ->
              [st EXCEPT !.index = wrapping_add(st.index, step_size) % n]
         [] st.mode = "Random" ->
              LET d == random_range(st.rng, n)
              IN [st EXCEPT !.index = d.value, !.rng = d.rng]
         [] st.mode = "Shuffle" -> ShufflePops(st, step_size)
         [] st.mode = "Walk" ->
              LET d == random_bool(st.rng)
                  step_signed == StepSigned(step_size, d.value)
              IN [st EXCEPT !.index = wrapping_isize(st.index + step_signed) % n,
                            !.rng = d.rng]

\* A trigger test that every sample passes.
Triggered_always(trigger, i, scale) == TRUE

Triggered(trigger, i, scale) == Over05(GetOr(trigger, i, 0), scale)

\* The loop of UGSelect::process from sample i on: the generator at the end,
\* the block it wrote, the index after each active trigger, whether each of
\* these triggers had a step size of 1, and the first sample, if any, whose
\* addition overflowed (-1 if none).
RECURSIVE UGSelect_loop(_, _, _, _, _, _, _)
UGSelect_loop(st, trigger, step, scale, len, i, acc) ==
    IF i >= len THEN [acc EXCEPT !.state = st]
    ELSE LET hit == Triggered(trigger, i, scale)
             step_size == StepSize(step, i, scale)
             moved == IF hit THEN Advance(st, step_size) ELSE st
         IN UGSelect_loop(moved, trigger, step, scale, len, i + 1,
                [state |-> moved,
                 out |-> Append(acc.out, moved.values[moved.index + 1]),
                 picked |-> IF hit THEN Append(acc.picked, moved.index)
                            ELSE acc.picked,
                 unit |-> acc.unit /\ (hit => step_size = 1),
                 overflow |-> IF acc.overflow = -1 /\ hit
                                 /\ Overflows(st, step_size)
                              THEN i ELSE acc.overflow])

\* UGSelect::process over a block of len samples
UGSelect_process(st, trigger, step, scale, len) ==
    IF Len(st.values) = 0
    THEN [state |-> st, out |-> [i \in 1..len |-> 0], picked |-> <<>>,
          unit |-> TRUE, overflow |-> -1]
    ELSE UGSelect_loop(st, trigger, step, scale, len, 0,
             [state |-> st, out |-> <<>>, picked |-> <<>>, unit |-> TRUE,
              overflow |-> -1])

\* ------------------------------------------------------------------- state

VARIABLES
    nodes,            \* GenGraph.nodes: Vec<GraphNode>
    name_to_node_id,  \* GenGraph.name_to_node_id
    time_sample,      \* GenGraph.time_sample
    pc,               \* "idle", "processing" inside process(), or "panicked"
    order,            \* process(): the execution order being iterated
    pos,              \* process(): the 1-based position in order
    result,           \* how the last call ended: "ok" or the kind of panic
    ret,              \* the value the last query returned
    blocks,           \* process() calls that returned
    written,          \* per node: the process() call that last wrote it, or 0
    invoked,          \* this process() call: <<NodeId, time_sample passed>>
    changed,          \* a node or edge was added since the order was last read
    sorted,           \* the last call ran the topological sort
    twin,             \* a second GenGraph built by the same calls: its nodes
    rec,              \* the Recorder that from_samples is building
    sel,              \* a UGSelect driven on its own, with what it has put out
    env,              \* a UGEnvAR driven on its own, with what it has put out
    reply,            \* what get_outputs, get_output_by_label or describe_json
                      \* last returned
    gen               \* one other generator driven on its own, with what it
                      \* has put out

gvars == <<nodes, name_to_node_id, time_sample, pc, order, pos, result, ret,
           blocks, written, invoked, changed, sorted>>

\* The objects that a program without them leaves alone.
benchvars == <<twin, rec, sel, env, reply, gen>>

vars == <<nodes, name_to_node_id, time_sample, pc, order, pos, result, ret,
          blocks, written, invoked, changed, sorted, twin, rec, sel, env,
          reply, gen>>

\* No Recorder, no generator of its own.
Absent == [state |-> "absent"]

\* The return of a query: the query, its argument, the value.
Reply(query, arg, value) == [query |-> query, arg |-> arg, value |-> value]

\* GenGraph::new
Init ==
    /\ nodes = <<>>
    /\ name_to_node_id = <<>>
    /\ time_sample = 0
    /\ pc = "idle"
    /\ order = <<>>
    /\ pos = 0
    /\ result = "ok"
    /\ ret = <<>>
    /\ blocks = 0
    /\ written = <<>>
    /\ invoked = <<>>
    /\ changed = TRUE
    /\ sorted = FALSE
    /\ twin = Absent
    /\ rec = Absent
    /\ sel = Absent
    /\ env = Absent
    /\ gen = Absent
    /\ reply = Reply("none", <<>>, <<>>)

NodeIds(ns) == 0..(Len(ns) - 1)

EdgeCount(ns) == LET RECURSIVE Sum(_)
                     Sum(i) == IF i = 0 THEN 0 ELSE Len(ns[i].inputs) + Sum(i - 1)
                 IN Sum(Len(ns))

\* The nodes of S in ascending NodeId order (the order of the source's scans).
RECURSIVE Ascending(_)
Ascending(S) ==
    IF S = {} THEN <<>>
    ELSE LET m == CHOOSE x \in S : \A y \in S : x <= y
         IN <<m>> \o Ascending(S \ {m})

\* The edges of node t whose source is nid.
EdgesFrom(ns, t, nid) ==
    {k \in 1..Len(ns[t + 1].inputs) : ns[t + 1].inputs[k].src = nid}

\* The while loop of get_execution_node_ids: pop the front of the queue, push
\* it on the order, take one off the indegree of the target of every edge
\* leaving it and queue each target whose indegree reaches 0 (targets are
\* scanned in storage order).
RECURSIVE KahnLoop(_, _, _, _)
KahnLoop(ns, indegree, queue, acc) ==
    IF queue = <<>> THEN acc
    ELSE LET nid == Head(queue)
             dec == [t \in NodeIds(ns) |->
                        indegree[t] - Cardinality(EdgesFrom(ns, t, nid))]
             zero == {t \in NodeIds(ns) :
                        EdgesFrom(ns, t, nid) # {} /\ dec[t] = 0}
         IN KahnLoop(ns, dec, Tail(queue) \o Ascending(zero), Append(acc, nid))

\* A scheduler that runs the nodes in storage order.
get_execution_node_ids_storage(ns) == Ascending(NodeIds(ns))

\* A scheduler that takes one off the indegree per source node popped, not
\* per edge.
RECURSIVE KahnLoopOnce(_, _, _, _)
KahnLoopOnce(ns, indegree, queue, acc) ==
    IF queue = <<>> THEN acc
    ELSE LET nid == Head(queue)
             dec == [t \in NodeIds(ns) |->
                        indegree[t] - (IF EdgesFrom(ns, t, nid) # {} THEN 1 ELSE 0)]
             zero == {t \in NodeIds(ns) :
                        EdgesFrom(ns, t, nid) # {} /\ dec[t] = 0}
         IN KahnLoopOnce(ns, dec, Tail(queue) \o Ascending(zero),
                         Append(acc, nid))

get_execution_node_ids_once(ns) ==
    LET indegree == [t \in NodeIds(ns) |-> Len(ns[t + 1].inputs)]
    IN KahnLoopOnce(ns, indegree,
                    Ascending({t \in NodeIds(ns) : indegree[t] = 0}), <<>>)

\* A scheduler whose indegree leaves out the edges of a node to itself.
get_execution_node_ids_selfloops(ns) ==
    LET indegree == [t \in NodeIds(ns) |->
                        Len(ns[t + 1].inputs) - Cardinality(EdgesFrom(ns, t, t))]
    IN KahnLoop(ns, indegree,
                Ascending({t \in NodeIds(ns) : indegree[t] = 0}), <<>>)

\* GenGraph::get_execution_node_ids: Kahn's topological sort; the indegree of
\* a node is the length of its edge list.
get_execution_node_ids(ns) ==
    LET indegree == [t \in NodeIds(ns) |-> Len(ns[t + 1].inputs)]
    IN KahnLoop(ns, indegree,
                Ascending({t \in NodeIds(ns) : indegree[t] = 0}), <<>>)

\* GenGraph::get_output_names: "<node>.<output>" per node in execution order.
RECURSIVE LabelsOf(_, _)
LabelsOf(ns, ids) ==
    IF ids = <<>> THEN <<>>
    ELSE LET node == ns[Head(ids) + 1]
             names == output_names(node.kind)
         IN [i \in 1..Len(names) |-> Label(node.name, names[i])]
            \o LabelsOf(ns, Tail(ids))

get_output_names(ns) == LabelsOf(ns, get_execution_node_ids(ns))

Reverse(seq) == [i \in 1..Len(seq) |-> seq[Len(seq) + 1 - i]]

\* A reference to an output buffer, &nodes[node].outputs[index], with the
\* label it goes under and the samples it refers to.
BufferRef(ns, label, node, index) ==
    [label |-> label, node |-> node, index |-> index,
     buffer |-> ns[node + 1].outputs[index + 1]]

\* GenGraph::get_outputs: (label, buffer) per output, per node of ids.
RECURSIVE OutputsOf(_, _)
OutputsOf(ns, ids) ==
    IF ids = <<>> THEN <<>>
    ELSE LET node == ns[Head(ids) + 1]
             names == output_names(node.kind)
         IN [i \in 1..Len(names) |->
                BufferRef(ns, Label(node.name, names[i]), Head(ids), i - 1)]
            \o OutputsOf(ns, Tail(ids))

\* A get_outputs that walks the execution order from its end.
get_outputs_reversed(ns) == OutputsOf(ns, Reverse(get_execution_node_ids(ns)))

\* A get_outputs that walks the nodes as they are stored.
get_outputs_storage(ns) == OutputsOf(ns, Ascending(NodeIds(ns)))

get_outputs(ns) == OutputsOf(ns, get_execution_node_ids(ns))

\* GenGraph::get_output_named: the buffer of the output that the label names,
\* or the kind of the panic.
get_output_named(ns, ids, label) ==
    LET sp == split_name(label)
    IN IF ~sp.ok THEN [result |-> "LabelFormatError", ref |-> <<>>]
       ELSE IF sp.name \notin DOMAIN ids
       THEN [result |-> "LookupError", ref |-> <<>>]
       ELSE LET node == ns[ids[sp.name] + 1]
                index == position(output_names(node.kind), sp.port)
            IN IF index < 0 THEN [result |-> "PortError", ref |-> <<>>]
               ELSE [result |-> "ok",
                     ref |-> <<BufferRef(ns, label, ids[sp.name], index)>>]

\* The query under the name that Recorder calls it by.
get_output_by_label(ns, ids, label) == get_output_named(ns, ids, label)

\* ----------------------------------------------------------------- actions

\* A call that panics: nothing but the outcome changes, and the program ends.
Panic(kind) ==
    /\ result' = kind
    /\ pc' = "panicked"
    /\ ret' = <<>>
    /\ UNCHANGED <<nodes, name_to_node_id, time_sample, order, pos, blocks,
                   written, invoked, changed, sorted>>

\* A GraphNode with one buffer whatever its generator declares.
NewNode_single(id, name, kind, rng) ==
    [id |-> id, name |-> name, kind |-> kind, inputs |-> <<>>,
     outputs |-> <<[i \in 1..buffer_size |-> 0]>>,
     phase |-> 0,
     select |-> IF kind \in SelectKinds
                THEN UGSelect_new(SelectValues, SelectMode, rng)
                ELSE UGSelect_new(<<>>, SelectMode, 0)]

\* GraphNode as add_node builds it: no edges, one zeroed buffer per output.
NewNode(id, name, kind, rng) ==
    [id |-> id, name |-> name, kind |-> kind, inputs |-> <<>>,
     outputs |-> [o \in 1..Len(output_names(kind)) |->
                     [i \in 1..buffer_size |-> 0]],
     phase |-> 0,
     select |-> IF kind \in SelectKinds
                THEN UGSelect_new(SelectValues, SelectMode, rng)
                ELSE UGSelect_new(<<>>, SelectMode, 0)]

\* A constructor that takes its random state from the thread's generator
\* whether or not a seed is given.
new_rng_entropy(kind) ==
    CASE kind \in SelectKinds -> RngStates
      [] OTHER -> {0}

\* The random state a generator is constructed with: StdRng::seed_from_u64 of
\* the seed, or StdRng::from_rng(&mut rand::rng()), which is any state.
new_rng(kind) ==
    CASE kind = "UGSelect" -> {seed_from_u64(SelectSeed)}
      [] kind = "UGSelect_unseeded" -> RngStates
      [] OTHER -> {0}

\* An add_node without the check of the name: a second registration of a
\* name takes the name over.
add_node_nocheck(name, kind) ==
    /\ pc = "idle"
    /\ Len(nodes) < MaxNodes
    /\ name_to_node_id' =
           [x \in DOMAIN name_to_node_id \cup {name} |->
               IF x = name THEN Len(nodes) ELSE name_to_node_id[x]]
    /\ \E rng \in new_rng(kind) :
           nodes' = Append(nodes, NewNode(Len(nodes), name, kind, rng))
    /\ written' = Append(written, 0)
    /\ changed' = TRUE
    /\ sorted' = FALSE
    /\ result' = "ok"
    /\ ret' = <<>>
    /\ UNCHANGED <<time_sample, pc, order, pos, blocks, invoked>>

\* GenGraph::add_node
add_node(name, kind) ==
    /\ pc = "idle"
    /\ IF name \in DOMAIN name_to_node_id
       THEN Panic("NamingError")
       ELSE /\ Len(nodes) < MaxNodes
            /\ name_to_node_id' = (name :> Len(nodes)) @@ name_to_node_id
            /\ \E rng \in new_rng(kind) :
                   nodes' = Append(nodes, NewNode(Len(nodes), name, kind, rng))
            /\ written' = Append(written, 0)
            /\ changed' = TRUE
            /\ sorted' = FALSE
            /\ result' = "ok"
            /\ ret' = <<>>
            /\ UNCHANGED <<time_sample, pc, order, pos, blocks, invoked>>

\* A connect_ids without the check of the destination input.
connect_ids_nocheck(src, output_index, dst, input_index) ==
    /\ dst < Len(nodes)
    /\ EdgeCount(nodes) < MaxEdges
    /\ nodes' = [nodes EXCEPT ![dst + 1].inputs =
                    Append(@, [src |-> src, output_index |-> output_index,
                               input_index |-> input_index])]
    /\ changed' = TRUE
    /\ sorted' = FALSE
    /\ result' = "ok"
    /\ ret' = <<>>
    /\ UNCHANGED <<name_to_node_id, time_sample, pc, order, pos, blocks,
                   written, invoked>>

\* A connect_ids that takes the edges of the input off the destination
\* before it connects the new one.
connect_ids_replace(src, output_index, dst, input_index) ==
    /\ dst < Len(nodes)
    /\ EdgeCount(nodes) < MaxEdges
    /\ nodes' = [nodes EXCEPT ![dst + 1].inputs =
                    Append(SelectSeq(@, LAMBDA e : e.input_index # input_index),
                           [src |-> src, output_index |-> output_index,
                            input_index |-> input_index])]
    /\ changed' = TRUE
    /\ sorted' = FALSE
    /\ result' = "ok"
    /\ ret' = <<>>
    /\ UNCHANGED <<name_to_node_id, time_sample, pc, order, pos, blocks,
                   written, invoked>>

\* GenGraph::connect_ids: one edge per destination input, else a panic.
connect_ids(src, output_index, dst, input_index) ==
    IF dst < Len(nodes)
    THEN IF \E k \in 1..Len(nodes[dst + 1].inputs) :
                nodes[dst + 1].inputs[k].input_index = input_index
         THEN Panic("ConnectionError")
         ELSE /\ EdgeCount(nodes) < MaxEdges
              /\ nodes' = [nodes EXCEPT ![dst + 1].inputs =
                              Append(@, [src |-> src,
                                         output_index |-> output_index,
                                         input_index |-> input_index])]
              /\ changed' = TRUE
              /\ sorted' = FALSE
              /\ result' = "ok"
              /\ ret' = <<>>
              /\ UNCHANGED <<name_to_node_id, time_sample, pc, order, pos,
                             blocks, written, invoked>>
    ELSE /\ result' = "ok"
         /\ ret' = <<>>
         /\ sorted' = FALSE
         /\ UNCHANGED <<nodes, name_to_node_id, time_sample, pc, order, pos,
                        blocks, written, invoked, changed>>

\* GenGraph::connect: both labels are split, then the destination and the
\* source names are looked up, then the input and the output port.
connect(src, dst) ==
    /\ pc = "idle"
    /\ LET s == split_name(src)
           d == split_name(dst)
       IN IF ~s.ok \/ ~d.ok THEN Panic("LabelFormatError")
          ELSE IF d.name \notin DOMAIN name_to_node_id
                  \/ s.name \notin DOMAIN name_to_node_id
          THEN Panic("LookupError")
          ELSE LET dst_id == name_to_node_id[d.name]
                   src_id == name_to_node_id[s.name]
                   input_index ==
                       position(input_names(nodes[dst_id + 1].kind), d.port)
                   output_index ==
                       position(output_names(nodes[src_id + 1].kind), s.port)
               IN IF input_index < 0 \/ output_index < 0
                  THEN Panic("PortError")
                  ELSE connect_ids(src_id, output_index, dst_id, input_index)

\* process(): the slice an edge of the node at node_index reads, found in the
\* halves split_at_mut leaves on either side of the node.  An edge from the
\* node itself has no slice (the index underflows).
EdgeSlice(ns, node_index, edge) ==
    LET left == SubSeq(ns, 1, node_index)
        rest == SubSeq(ns, node_index + 2, Len(ns))
    IN IF edge.src < node_index
       THEN left[edge.src + 1].outputs[edge.output_index + 1]
       ELSE rest[(edge.src - node_index - 1) + 1].outputs[edge.output_index + 1]

\* process(): input_slices, an empty slice per declared input, overwritten by
\* the slice of each edge in the order of the edge list.
RECURSIVE FillSlices(_, _, _, _)
FillSlices(ns, node_index, k, slices) ==
    LET edges == ns[node_index + 1].inputs
    IN IF k > Len(edges) THEN slices
       ELSE FillSlices(ns, node_index, k + 1,
                [slices EXCEPT ![edges[k].input_index + 1] =
                    EdgeSlice(ns, node_index, edges[k])])

input_slices(ns, node_index) ==
    FillSlices(ns, node_index, 1,
        [i \in 1..Len(input_names(ns[node_index + 1].kind)) |-> <<>>])

\* Whether building the slices or the generator itself panics.
NodePanics(ns, node_index) ==
    \/ \E k \in 1..Len(ns[node_index + 1].inputs) :
           ns[node_index + 1].inputs[k].src = node_index
    \/ /\ ns[node_index + 1].kind = "UGSum"
       /\ UGSum_panics(input_slices(ns, node_index))

\* node.node.process(&input_slices, &mut output_slices, ..): the node with its
\* output buffers overwritten and its generator state advanced.
Invoke(ns, node_index) ==
    LET node == ns[node_index + 1]
        ins == input_slices(ns, node_index)
    IN CASE node.kind = "UGConst" ->
              [node EXCEPT !.outputs[1] = UGConst_process]
         [] node.kind = "UGSum" ->
              [node EXCEPT !.outputs[1] = UGSum_process(ins)]
         [] node.kind = "UGClock" ->
              LET r == UGClock_process(ClockValue, buffer_size, ins[1],
                                       node.phase)
              IN [node EXCEPT !.outputs[1] = r.out, !.phase = r.phase]
         [] node.kind \in SelectKinds ->
              LET r == UGSelect_process(node.select, ins[1], ins[2], 1,
                                        buffer_size)
              IN [node EXCEPT !.outputs[1] = r.out, !.select = r.state]

\* A process() that walks the execution order from its end.
ProcessBegin_reversed ==
    /\ pc = "idle"
    /\ blocks < MaxBlocks
    /\ pc' = "processing"
    /\ order' = Reverse(get_execution_node_ids(nodes))
    /\ pos' = 1
    /\ invoked' = <<>>
    /\ changed' = FALSE
    /\ sorted' = TRUE
    /\ result' = "ok"
    /\ ret' = <<>>
    /\ UNCHANGED benchvars
    /\ UNCHANGED <<nodes, name_to_node_id, time_sample, blocks, written>>

\* The nodes of seq that an earlier process() call has written.
RECURSIVE WrittenOnly(_)
WrittenOnly(seq) ==
    IF seq = <<>> THEN <<>>
    ELSE (IF written[Head(seq) + 1] # 0 THEN <<Head(seq)>> ELSE <<>>)
         \o WrittenOnly(Tail(seq))

\* A process() that keeps the order of its first call: nodes registered
\* later are not in it.
ProcessBegin_stale ==
    /\ pc = "idle"
    /\ blocks < MaxBlocks
    /\ pc' = "processing"
    /\ order' = IF blocks = 0 THEN get_execution_node_ids(nodes)
                ELSE WrittenOnly(get_execution_node_ids(nodes))
    /\ pos' = 1
    /\ invoked' = <<>>
    /\ changed' = FALSE
    /\ sorted' = TRUE
    /\ result' = "ok"
    /\ ret' = <<>>
    /\ UNCHANGED benchvars
    /\ UNCHANGED <<nodes, name_to_node_id, time_sample, blocks, written>>

\* GenGraph::process, entry: the execution order is computed.
ProcessBegin ==
    /\ pc = "idle"
    /\ blocks < MaxBlocks
    /\ pc' = "processing"
    /\ order' = get_execution_node_ids(nodes)
    /\ pos' = 1
    /\ invoked' = <<>>
    /\ changed' = FALSE
    /\ sorted' = TRUE
    /\ result' = "ok"
    /\ ret' = <<>>
    /\ UNCHANGED benchvars
    /\ UNCHANGED <<nodes, name_to_node_id, time_sample, blocks, written>>

\* A turn of the loop that hands the generator every node's buffers: the
\* buffers of the other nodes are cleared.
ProcessNode_shared ==
    /\ pc = "processing"
    /\ pos <= Len(order)
    /\ LET nid == order[pos]
       IN IF NodePanics(nodes, nid)
          THEN /\ pc' = "panicked"
               /\ result' = "GeneratorPanic"
               /\ UNCHANGED <<nodes, written, invoked, pos, order>>
          ELSE /\ nodes' = [i \in 1..Len(nodes) |->
                               IF i = nid + 1 THEN Invoke(nodes, nid)
                               ELSE [nodes[i] EXCEPT !.outputs =
                                        [o \in 1..Len(nodes[i].outputs) |->
                                            [k \in 1..buffer_size |-> 0]]]]
               /\ written' = [written EXCEPT ![nid + 1] = blocks + 1]
               /\ invoked' = Append(invoked, <<nid, time_sample>>)
               /\ pos' = pos + 1
               /\ UNCHANGED <<pc, order, result>>
    /\ UNCHANGED benchvars
    /\ UNCHANGED <<name_to_node_id, time_sample, ret, blocks, changed, sorted>>

\* GenGraph::process, one turn of the loop: the node at order[pos] is invoked.
ProcessNode ==
    /\ pc = "processing"
    /\ pos <= Len(order)
    /\ LET nid == order[pos]
       IN IF NodePanics(nodes, nid)
          THEN /\ pc' = "panicked"
               /\ result' = "GeneratorPanic"
               /\ UNCHANGED <<nodes, written, invoked, pos, order>>
          ELSE /\ nodes' = [nodes EXCEPT ![nid + 1] = Invoke(nodes, nid)]
               /\ written' = [written EXCEPT ![nid + 1] = blocks + 1]
               /\ invoked' = Append(invoked, <<nid, time_sample>>)
               /\ pos' = pos + 1
               /\ UNCHANGED <<pc, order, result>>
    /\ UNCHANGED benchvars
    /\ UNCHANGED <<name_to_node_id, time_sample, ret, blocks, changed, sorted>>

\* A process() that advances the time counter by one sample.
ProcessEnd_onesample ==
    /\ pc = "processing"
    /\ pos > Len(order)
    /\ time_sample' = time_sample + 1
    /\ blocks' = blocks + 1
    /\ pc' = "idle"
    /\ result' = "ok"
    /\ order' = <<>>
    /\ pos' = 0
    /\ invoked' = <<>>
    /\ UNCHANGED benchvars
    /\ UNCHANGED <<nodes, name_to_node_id, ret, written, changed, sorted>>

\* GenGraph::process, exit: the time counter advances by one block.
ProcessEnd ==
    /\ pc = "processing"
    /\ pos > Len(order)
    /\ time_sample' = time_sample + buffer_size
    /\ blocks' = blocks + 1
    /\ pc' = "idle"
    /\ result' = "ok"
    /\ order' = <<>>
    /\ pos' = 0
    /\ invoked' = <<>>
    /\ UNCHANGED benchvars
    /\ UNCHANGED <<nodes, name_to_node_id, ret, written, changed, sorted>>

\* GenGraph::get_output_names (a read-only query).
GetOutputNames ==
    /\ pc = "idle"
    /\ ret' = get_output_names(nodes)
    /\ changed' = FALSE
    /\ sorted' = TRUE
    /\ result' = "ok"
    /\ UNCHANGED benchvars
    /\ UNCHANGED <<nodes, name_to_node_id, time_sample, pc, order, pos, blocks,
                   written, invoked>>

\* ------------------------------------------------------------ specification

\* The name a caller passes to add_node: the next unused name of the pool, or
\* a name already registered.
AddNames ==
    {NamePool[i] : i \in {j \in 1..Len(NamePool) : j <= Len(nodes) + 1}}

\* A name no node is registered under, and a name no port carries.
Unregistered == <<"z">>
S_x == <<"x">>

\* The labels of the declared outputs, and of the declared inputs, of the
\* registered nodes.
OutputLabels ==
    UNION {{Label(nodes[i].name, output_names(nodes[i].kind)[o]) :
               o \in 1..Len(output_names(nodes[i].kind))} : i \in 1..Len(nodes)}

InputLabels ==
    UNION {{Label(nodes[i].name, input_names(nodes[i].kind)[k]) :
               k \in 1..Len(input_names(nodes[i].kind))} : i \in 1..Len(nodes)}

\* One declared output and one declared input to go with a bad label (a
\* label of the first pool name when no node declares any).
AnOutput ==
    IF OutputLabels = {} THEN Label(NamePool[1], S_out)
    ELSE CHOOSE l \in OutputLabels : TRUE

AnInput ==
    IF InputLabels = {} THEN Label(NamePool[1], S_in)
    ELSE CHOOSE l \in InputLabels : TRUE

\* The bad labels: no '.', an unregistered node, an undeclared port.
BadLabels ==
    {Malformed, Label(Unregistered, S_out), Label(NamePool[1], S_x)}

\* The arguments a caller passes to connect: every declared output to every
\* declared input, and each bad label on either side of a good one.
ConnectCalls ==
    (OutputLabels \X InputLabels)
    \cup (BadLabels \X {AnInput})
    \cup ({AnOutput} \X BadLabels)

\* The calls of a caller; a call is made when no call is under way.
AddNode ==
    /\ pc = "idle"
    /\ \E name \in AddNames, kind \in Kinds : add_node(name, kind)
    /\ UNCHANGED benchvars

Connect ==
    /\ pc = "idle"
    /\ \E call \in ConnectCalls : connect(call[1], call[2])
    /\ UNCHANGED benchvars

Next ==
    \/ AddNode
    \/ Connect
    \/ ProcessBegin
    \/ ProcessNode
    \/ ProcessEnd
    \/ GetOutputNames

Spec == Init /\ [][Next]_vars

\* The building of a graph: registrations, connections and queries, with
\* every call that panics, and no process() call.
NextBuild ==
    \/ AddNode
    \/ Connect
    \/ GetOutputNames

SpecBuild == Init /\ [][NextBuild]_vars

\* The labels of the declared inputs that have no edge.
FreeInputLabels ==
    UNION {{Label(nodes[i].name, input_names(nodes[i].kind)[k]) :
               k \in {j \in 1..Len(input_names(nodes[i].kind)) :
                         \A e \in 1..Len(nodes[i].inputs) :
                             nodes[i].inputs[e].input_index # j - 1}} :
              i \in 1..Len(nodes)}

\* The calls of a caller whose add_node and connect calls all return: a node
\* under the next unused name, a declared output to a declared input that has
\* no edge.
AddFresh ==
    /\ pc = "idle"
    /\ Len(nodes) < Len(NamePool)
    /\ \E kind \in Kinds : add_node(NamePool[Len(nodes) + 1], kind)
    /\ UNCHANGED benchvars

ConnectFree ==
    /\ pc = "idle"
    /\ \E call \in OutputLabels \X FreeInputLabels : connect(call[1], call[2])
    /\ UNCHANGED benchvars

\* The runs of a program whose add_node and connect calls all return (a call
\* that panics ends the program): the graph is built and processed in any
\* interleaving.
NextRun ==
    \/ AddFresh
    \/ ConnectFree
    \/ ProcessBegin
    \/ ProcessNode
    \/ ProcessEnd
    \/ GetOutputNames

SpecRun == Init /\ [][NextRun]_vars

\* ------------------------------------------------------------- two graphs

\* The loop of GenGraph::process from the i-th node of the order on: the
\* nodes at its end, or at the node that panics.
RECURSIVE RunOrder(_, _, _)
RunOrder(ns, ord, i) ==
    IF i > Len(ord) THEN [ok |-> TRUE, nodes |-> ns, done |-> i - 1]
    ELSE IF NodePanics(ns, ord[i])
    THEN [ok |-> FALSE, nodes |-> ns, done |-> i - 1]
    ELSE RunOrder([ns EXCEPT ![ord[i] + 1] = Invoke(ns, ord[i])], ord, i + 1)

\* GenGraph::process, from entry to exit.
process ==
    /\ pc = "idle"
    /\ blocks < MaxBlocks
    /\ LET ord == get_execution_node_ids(nodes)
           r == RunOrder(nodes, ord, 1)
       IN /\ nodes' = r.nodes
          /\ written' = [i \in 1..Len(nodes) |->
                            IF \E k \in 1..r.done : ord[k] = i - 1
                            THEN blocks + 1 ELSE written[i]]
          /\ IF r.ok
             THEN /\ time_sample' = time_sample + buffer_size
                  /\ blocks' = blocks + 1
                  /\ result' = "ok"
                  /\ pc' = "idle"
             ELSE /\ result' = "GeneratorPanic"
                  /\ pc' = "panicked"
                  /\ UNCHANGED <<time_sample, blocks>>
    /\ changed' = FALSE
    /\ sorted' = TRUE
    /\ ret' = <<>>
    /\ UNCHANGED <<name_to_node_id, order, pos, invoked>>

\* Every output buffer of every node.
Snapshot(ns) == [i \in 1..Len(ns) |-> ns[i].outputs]

\* The generators of the two graphs.
TwinKinds == {"UGConst", "UGClock", "UGSelect", "UGSelect_unseeded"}

\* A program that builds and runs one graph, then builds a second one by the
\* same calls: twin.log holds the calls, twin.tape the buffers of the first
\* graph after each block, twin.tape2 those of the second.
InitTwin ==
    /\ nodes = <<>>
    /\ name_to_node_id = <<>>
    /\ time_sample = 0
    /\ pc = "idle"
    /\ order = <<>>
    /\ pos = 0
    /\ result = "ok"
    /\ ret = <<>>
    /\ blocks = 0
    /\ written = <<>>
    /\ invoked = <<>>
    /\ changed = TRUE
    /\ sorted = FALSE
    /\ twin = [phase |-> "first", log |-> <<>>, at |-> 1, tape |-> <<>>,
               tape2 |-> <<>>]
    /\ rec = Absent
    /\ sel = Absent
    /\ env = Absent
    /\ gen = Absent
    /\ reply = Reply("none", <<>>, <<>>)

Call(op, a, b) == [op |-> op, a |-> a, b |-> b]

TwinAdd ==
    /\ twin.phase = "first"
    /\ Len(nodes) < Len(NamePool)
    /\ \E kind \in TwinKinds :
           /\ add_node(NamePool[Len(nodes) + 1], kind)
           /\ twin' = [twin EXCEPT !.log =
                           Append(@, Call("add_node",
                                          NamePool[Len(nodes) + 1], <<kind>>))]
    /\ UNCHANGED <<rec, sel, env, reply, gen>>

TwinConnect ==
    /\ twin.phase = "first"
    /\ pc = "idle"
    /\ \E call \in OutputLabels \X FreeInputLabels :
           /\ connect(call[1], call[2])
           /\ twin' = [twin EXCEPT !.log =
                           Append(@, Call("connect", call[1], call[2]))]
    /\ UNCHANGED <<rec, sel, env, reply, gen>>

TwinProcess ==
    /\ twin.phase = "first"
    /\ process
    /\ twin' = [twin EXCEPT !.log = Append(@, Call("process", <<>>, <<>>)),
                            !.tape = Append(@, Snapshot(nodes'))]
    /\ UNCHANGED <<rec, sel, env, reply, gen>>

\* GenGraph::new for the second graph.
TwinRestart ==
    /\ twin.phase = "first"
    /\ pc = "idle"
    /\ nodes' = <<>>
    /\ name_to_node_id' = <<>>
    /\ time_sample' = 0
    /\ blocks' = 0
    /\ written' = <<>>
    /\ changed' = TRUE
    /\ sorted' = FALSE
    /\ result' = "ok"
    /\ ret' = <<>>
    /\ twin' = [twin EXCEPT !.phase = "replay"]
    /\ UNCHANGED <<pc, order, pos, invoked, rec, sel, env, reply, gen>>

\* The next call of the first graph, made on the second.
TwinReplay ==
    /\ twin.phase = "replay"
    /\ twin.at <= Len(twin.log)
    /\ LET c == twin.log[twin.at]
       IN CASE c.op = "add_node" ->
                 /\ add_node(c.a, c.b[1])
                 /\ twin' = [twin EXCEPT !.at = @ + 1]
            [] c.op = "connect" ->
                 /\ connect(c.a, c.b)
                 /\ twin' = [twin EXCEPT !.at = @ + 1]
            [] c.op = "process" ->
                 /\ process
                 /\ twin' = [twin EXCEPT !.at = @ + 1,
                                         !.tape2 = Append(@, Snapshot(nodes'))]
    /\ UNCHANGED <<rec, sel, env, reply, gen>>

\* ---------------------------------------------------------------- Recorder

\* (total_samples + buffer_size - 1) / buffer_size, rounded down.
iterations_down(total_samples) == total_samples \div buffer_size

\* (total_samples + buffer_size - 1) / buffer_size
iterations(total_samples) == (total_samples + buffer_size - 1) \div buffer_size

\* samples.truncate(total_samples)
truncate(samples, total_samples) ==
    IF Len(samples) > total_samples THEN SubSeq(samples, 1, total_samples)
    ELSE samples

\* The labels of a sequence of (label, buffer) pairs.
LabelSet(outs) == {outs[i].label : i \in 1..Len(outs)}

\* The largest of a set of naturals, 0 for none: .max().unwrap_or(0)
MaxOr0(S) == IF S = {} THEN 0 ELSE CHOOSE x \in S : \A y \in S : y <= x

\* Recorder::get_shape
get_shape(r) ==
    <<Cardinality(DOMAIN r.recorded),
      MaxOr0({Len(r.recorded[l]) : l \in DOMAIN r.recorded})>>

\* The total_samples and output_labels a caller passes: up to as many samples
\* as the blocks left hold; no labels, or some of the labels of the outputs.
TotalSamples == 0..((MaxBlocks - blocks) * buffer_size)

LabelChoices == {[some |-> FALSE, labels |-> {}]}
                \cup {[some |-> TRUE, labels |-> L] : L \in SUBSET OutputLabels}

\* Recorder::from_samples, up to the loop: the recorder takes the graph over.
\* rec.calls counts the process() calls, rec.start holds the nodes as they
\* are handed over.
FromSamples ==
    /\ rec = Absent
    /\ pc = "idle"
    /\ \E total_samples \in TotalSamples, output_labels \in LabelChoices :
           LET labels == IF output_labels.some THEN output_labels.labels
                         ELSE LabelSet(get_outputs(nodes))
           IN rec' = [state |-> "recording",
                      none |-> ~output_labels.some,
                      total_samples |-> total_samples,
                      left |-> iterations(total_samples),
                      recorded |-> [l \in labels |-> <<>>],
                      calls |-> 0,
                      start |-> nodes]
    /\ UNCHANGED <<twin, sel, env, reply, gen>>
    /\ UNCHANGED gvars

\* Recorder::from_samples, one turn of the loop: a block is processed and the
\* buffer of every label is appended to what is recorded under the label.
RecordBlock ==
    /\ rec # Absent
    /\ rec.state = "recording"
    /\ rec.left > 0
    /\ process
    /\ IF pc' = "panicked" THEN rec' = rec
       ELSE rec' = [rec EXCEPT
                       !.left = @ - 1,
                       !.calls = @ + 1,
                       !.recorded = [l \in DOMAIN @ |->
                           @[l] \o get_output_by_label(nodes', name_to_node_id,
                                                       l).ref[1].buffer]]
    /\ UNCHANGED <<twin, sel, env, reply, gen>>

\* Recorder::from_samples, after the loop: every sequence is cut to
\* total_samples and the Recorder is returned.
RecordEnd ==
    /\ rec # Absent
    /\ rec.state = "recording"
    /\ rec.left = 0
    /\ pc = "idle"
    /\ rec' = [rec EXCEPT
                  !.state = "done",
                  !.recorded = [l \in DOMAIN @ |->
                                   truncate(@[l], rec.total_samples)]]
    /\ UNCHANGED <<twin, sel, env, reply, gen>>
    /\ UNCHANGED gvars

\* The calls made on the graph before it is handed to a Recorder.
BuildAdd == rec = Absent /\ AddFresh

BuildConnect == rec = Absent /\ ConnectFree

BuildProcess == rec = Absent /\ process /\ UNCHANGED benchvars

NextRec ==
    \/ BuildAdd
    \/ BuildConnect
    \/ BuildProcess
    \/ FromSamples
    \/ RecordBlock
    \/ RecordEnd

SpecRec == Init /\ [][NextRec]_vars

NextTwin ==
    \/ TwinAdd
    \/ TwinConnect
    \/ TwinProcess
    \/ TwinRestart
    \/ TwinReplay

SpecTwin == InitTwin /\ [][NextTwin]_vars

\* ----------------------------------------------------------------- queries

\* name_to_node_id.iter().find(|(_, id)| id == node_id): the name of the id.
NameOfId(ids, id) == CHOOSE name \in DOMAIN ids : ids[name] = id

\* GenGraph::describe_json, an input: the output it is connected to, or its
\* default value.
DescribeInput(ns, ids, node, i) ==
    LET input_name == input_names(node.kind)[i]
        found == {e \in 1..Len(node.inputs) : node.inputs[e].input_index = i - 1}
    IN IF found # {}
       THEN LET edge == node.inputs[CHOOSE e \in found : \A f \in found : e <= f]
            IN [name |-> input_name, connected |-> TRUE,
                node |-> NameOfId(ids, edge.src),
                output |-> output_names(ns[edge.src + 1].kind)[edge.output_index + 1],
                default |-> None]
       ELSE [name |-> input_name, connected |-> FALSE, node |-> <<>>,
             output |-> <<>>, default |-> default_input(node.kind, input_name)]

\* GenGraph::describe_json: per node of the execution order its id, name and
\* type, its inputs, and its outputs with the last sample of each buffer. The
\* config string, fixed by the kind, is left out.
describe_json(ns, ids) ==
    LET ord == get_execution_node_ids(ns)
    IN [k \in 1..Len(ord) |->
           LET node == ns[ord[k] + 1]
           IN [id |-> node.id,
               name |-> NameOfId(ids, ord[k]),
               type |-> node.kind,
               inputs |-> [i \in 1..Len(input_names(node.kind)) |->
                              DescribeInput(ns, ids, node, i)],
               outputs |-> [o \in 1..Len(output_names(node.kind)) |->
                               [name |-> output_names(node.kind)[o],
                                value |-> node.outputs[o][buffer_size]]]]]

\* A get_outputs that hands the buffers over and leaves empty ones behind.
GetOutputs_taking ==
    /\ pc = "idle"
    /\ reply' = Reply("get_outputs", <<>>, get_outputs(nodes))
    /\ nodes' = [i \in 1..Len(nodes) |->
                    [nodes[i] EXCEPT !.outputs =
                        [o \in 1..Len(@) |-> [j \in 1..buffer_size |-> 0]]]]
    /\ changed' = FALSE
    /\ sorted' = TRUE
    /\ result' = "ok"
    /\ ret' = <<>>
    /\ UNCHANGED <<twin, rec, sel, env, gen>>
    /\ UNCHANGED <<name_to_node_id, time_sample, pc, order, pos, blocks,
                   written, invoked>>

\* GenGraph::get_outputs (a read-only query).
GetOutputs ==
    /\ pc = "idle"
    /\ reply' = Reply("get_outputs", <<>>, get_outputs(nodes))
    /\ changed' = FALSE
    /\ sorted' = TRUE
    /\ result' = "ok"
    /\ ret' = <<>>
    /\ UNCHANGED <<twin, rec, sel, env, gen>>
    /\ UNCHANGED <<nodes, name_to_node_id, time_sample, pc, order, pos, blocks,
                   written, invoked>>

\* GenGraph::get_output_by_label (a read-only query), for the label of a
\* declared output or a bad label.
GetOutputByLabel ==
    /\ pc = "idle"
    /\ \E label \in OutputLabels \cup BadLabels :
           LET r == get_output_by_label(nodes, name_to_node_id, label)
           IN IF r.result = "ok"
              THEN /\ reply' = Reply("get_output_by_label", label, r.ref)
                   /\ result' = "ok"
                   /\ sorted' = FALSE
                   /\ ret' = <<>>
                   /\ UNCHANGED <<nodes, name_to_node_id, time_sample, pc,
                                  order, pos, blocks, written, invoked,
                                  changed>>
              ELSE Panic(r.result) /\ UNCHANGED reply
    /\ UNCHANGED <<twin, rec, sel, env, gen>>

\* GenGraph::describe_json (a read-only query).
DescribeJson ==
    /\ pc = "idle"
    /\ reply' = Reply("describe_json", <<>>,
                      describe_json(nodes, name_to_node_id))
    /\ changed' = FALSE
    /\ sorted' = TRUE
    /\ result' = "ok"
    /\ ret' = <<>>
    /\ UNCHANGED <<twin, rec, sel, env, gen>>
    /\ UNCHANGED <<nodes, name_to_node_id, time_sample, pc, order, pos, blocks,
                   written, invoked>>

\* The generators of the graphs that are queried; UGSine has two outputs.
QueryKinds == {"UGConst", "UGClock", "UGSine"}

\* The calls between the queries; reply holds what the last call returned,
\* if it was a query.
NoReply ==
    /\ reply' = Reply("none", <<>>, <<>>)
    /\ UNCHANGED <<twin, rec, sel, env, gen>>

QueryAdd ==
    /\ pc = "idle"
    /\ Len(nodes) < Len(NamePool)
    /\ \E kind \in QueryKinds : add_node(NamePool[Len(nodes) + 1], kind)
    /\ NoReply

\* The labels of the first declared input of each node that has one.
FirstInputLabels ==
    {Label(nodes[i].name, input_names(nodes[i].kind)[1]) :
        i \in {j \in 1..Len(nodes) : input_names(nodes[j].kind) # <<>>}}

\* The connect calls between the queries: a declared output to the first
\* input of a node, if it has no edge.
QueryConnect ==
    /\ pc = "idle"
    /\ \E call \in OutputLabels \X (FirstInputLabels \cap FreeInputLabels) :
           connect(call[1], call[2])
    /\ NoReply

\* The sine of UGSine is not modelled: a graph with a UGSine is built and
\* queried, and not processed.
QueryProcess ==
    /\ \A i \in 1..Len(nodes) : nodes[i].kind # "UGSine"
    /\ process
    /\ NoReply

NextQuery ==
    \/ QueryAdd
    \/ QueryConnect
    \/ QueryProcess
    \/ GetOutputs
    \/ GetOutputNames
    \/ GetOutputByLabel
    \/ DescribeJson

SpecQuery == Init /\ [][NextQuery]_vars

\* ---------------------------------------------------------- a selector alone

\* A UGSelect driven directly, block after block, by trigger and step slices
\* of the caller's choosing. Samples are whole numbers of 1/SelScale.
SelScale == 2

SelLen == 2

SelMaxBlocks == 2

SelValues == {<<>>, <<5>>, <<3, 10>>, <<3, 10, 20>>}

\* 0.5 and 1.0 (an unconnected trigger is 0.0)
SelTriggers == {1, 2}

\* -1.0, 1.5, a step of isize::MAX + 1 and one beyond usize::MAX (an
\* unconnected step is 1.0)
SelSteps == {-2, 3, 2 * (IsizeMax + 1), 2 * (UsizeMax + 1)}

\* The slice of an input: empty when unconnected, else a block long.
Slices(samples) == {<<>>} \cup [1..SelLen -> samples]

\* UGSelect::new(values, mode, seed), any seed.
SelNew ==
    /\ sel = Absent
    /\ \E values \in SelValues, mode \in ModeSelect, rng \in RngStates :
           sel' = [state |-> "ready",
                   select |-> UGSelect_new(values, mode, rng),
                   before |-> UGSelect_new(values, mode, rng),
                   trigger |-> <<>>, step |-> <<>>, out |-> <<>>,
                   calls |-> 0, picks |-> <<>>, unit |-> TRUE, ones |-> TRUE]
    /\ UNCHANGED <<gvars, twin, rec, env, reply, gen>>

\* Every sample of the block has the trigger at 1.0 and the step at 1.0.
AllOnes(trigger, step) ==
    \A i \in 0..(SelLen - 1) :
        GetOr(trigger, i, 0) = SelScale /\ GetOr(step, i, SelScale) = SelScale

\* The selector after a process() call that returned.
SelReturned(r, trigger, step) ==
    [state |-> "ready", select |-> r.state, before |-> sel.select,
     trigger |-> trigger, step |-> step, out |-> r.out,
     calls |-> sel.calls + 1, picks |-> sel.picks \o r.picked,
     unit |-> sel.unit /\ r.unit, ones |-> sel.ones /\ AllOnes(trigger, step)]

\* The selector after a process() call that panicked on an overflow.
SelPanicked(trigger, step) ==
    [sel EXCEPT !.state = "panicked", !.before = sel.select,
                !.trigger = trigger, !.step = step, !.out = <<>>,
                !.calls = sel.calls + 1]

\* UGSelect::process on a block. Where the arithmetic of Cycle or Walk mode
\* overflows, the call panics in a build with overflow checks and wraps in
\* one without.
SelProcess ==
    /\ sel # Absent
    /\ sel.state = "ready"
    /\ sel.calls < SelMaxBlocks
    /\ \E trigger \in Slices(SelTriggers), step \in Slices(SelSteps) :
           LET r == UGSelect_process(sel.select, trigger, step, SelScale, SelLen)
           IN \/ sel' = SelReturned(r, trigger, step)
              \/ /\ r.overflow # -1
                 /\ sel' = SelPanicked(trigger, step)
    /\ UNCHANGED <<gvars, twin, rec, env, reply, gen>>

NextSel ==
    \/ SelNew
    \/ SelProcess

SpecSel == Init /\ [][NextSel]_vars

\* ------------------------------------------------------- an envelope alone

\* An f32 value that is a ratio of two integers, in lowest terms, or NaN
\* (den = 0), which 0.0 / 0.0 gives and every operation hands on.
RECURSIVE GCD(_, _)
GCD(a, b) == IF b = 0 THEN a ELSE GCD(b, a % b)

Abs(x) == IF x < 0 THEN 0 - x ELSE x

NaN == [num |-> 0, den |-> 0]

Ratio(n, d) ==
    IF d = 0 THEN NaN
    ELSE LET g == GCD(Abs(n), Abs(d))
             s == IF d < 0 THEN -1 ELSE 1
         IN [num |-> (s * n) \div g, den |-> (s * d) \div g]

Whole(n) == Ratio(n, 1)

IsNaN(x) == x.den = 0

RatAdd(x, y) ==
    IF IsNaN(x) \/ IsNaN(y) THEN NaN
    ELSE Ratio(x.num * y.den + y.num * x.den, x.den * y.den)

RatSub(x, y) ==
    IF IsNaN(x) \/ IsNaN(y) THEN NaN
    ELSE Ratio(x.num * y.den - y.num * x.den, x.den * y.den)

RatMul(x, y) ==
    IF IsNaN(x) \/ IsNaN(y) THEN NaN
    ELSE Ratio(x.num * y.num, x.den * y.den)

EnvPhase == {"Idle", "Attack", "Release"}

\* UGEnvAR::new
UGEnvAR_new ==
    [current |-> Whole(0), phase |-> "Idle", start |-> Whole(0),
     target |-> Whole(1), stage_total |-> 0, stage_remain |-> 0]

\* dur.get(i).unwrap_or(1.0).max(1.0).round() as i32, the samples of dur
\* being whole numbers of 1/scale.
StageLength(dur, i, scale) ==
    LET d == GetOr(dur, i, scale)
    IN round(IF d > scale THEN d ELSE scale, scale)

\* The stage_remain >= 0 branch of the loop of UGEnvAR::process with the
\* curve at 1.0: the value moves to start + (target - start) * progress and
\* the stage, once counted down, gives way to the next.
RunStage(st, rel_dur, i, scale) ==
    LET progress == RatSub(Whole(1), Ratio(st.stage_remain, st.stage_total))
        current == RatAdd(st.start,
                          RatMul(RatSub(st.target, st.start), progress))
        remain == st.stage_remain - 1
        ran == [st EXCEPT !.current = current, !.stage_remain = remain]
    IN IF remain >= 0 THEN ran
       ELSE CASE st.phase = "Attack" ->
                   [ran EXCEPT !.phase = "Release",
                               !.start = current,
                               !.target = Whole(0),
                               !.stage_total = StageLength(rel_dur, i, scale),
                               !.stage_remain = StageLength(rel_dur, i, scale)]
              [] st.phase = "Release" ->
                   [ran EXCEPT !.phase = "Idle", !.current = Whole(0)]
              [] st.phase = "Idle" -> ran

\* A stage that runs only while stage_remain > 0.
UGEnvAR_sample_short(st, trigger, att_dur, rel_dur, i, scale) ==
    LET armed == IF Over05(GetOr(trigger, i, 0), scale)
                 THEN [st EXCEPT !.phase = "Attack",
                                 !.start = st.current,
                                 !.target = Whole(1),
                                 !.stage_total = StageLength(att_dur, i, scale),
                                 !.stage_remain = StageLength(att_dur, i, scale)]
                 ELSE st
    IN IF armed.stage_remain > 0 THEN RunStage(armed, rel_dur, i, scale)
       ELSE armed

\* A trigger that starts a stage only when none is running.
UGEnvAR_sample_edge(st, trigger, att_dur, rel_dur, i, scale) ==
    LET armed == IF Over05(GetOr(trigger, i, 0), scale) /\ st.phase = "Idle"
                 THEN [st EXCEPT !.phase = "Attack",
                                 !.start = st.current,
                                 !.target = Whole(1),
                                 !.stage_total = StageLength(att_dur, i, scale),
                                 !.stage_remain = StageLength(att_dur, i, scale)]
                 ELSE st
    IN IF armed.stage_remain >= 0 THEN RunStage(armed, rel_dur, i, scale)
       ELSE armed

\* The body of the loop of UGEnvAR::process for sample i, attack_curve and
\* release_curve unconnected (1.0, the linear shape): the envelope after it;
\* the sample written is its current value.
UGEnvAR_sample(st, trigger, att_dur, rel_dur, i, scale) ==
    LET armed == IF Over05(GetOr(trigger, i, 0), scale)
                 THEN [st EXCEPT !.phase = "Attack",
                                 !.start = st.current,
                                 !.target = Whole(1),
                                 !.stage_total = StageLength(att_dur, i, scale),
                                 !.stage_remain = StageLength(att_dur, i, scale)]
                 ELSE st
    IN IF armed.stage_remain >= 0 THEN RunStage(armed, rel_dur, i, scale)
       ELSE armed

\* UGEnvAR::process from sample i on: the envelope at the end, the block
\* written, and for each sample whether its trigger was active and what the
\* value and the phase were just before it.
RECURSIVE UGEnvAR_loop(_, _, _, _, _, _, _, _)
UGEnvAR_loop(st, trigger, att_dur, rel_dur, scale, len, i, acc) ==
    IF i >= len THEN [acc EXCEPT !.state = st]
    ELSE LET next == UGEnvAR_sample(st, trigger, att_dur, rel_dur, i, scale)
         IN UGEnvAR_loop(next, trigger, att_dur, rel_dur, scale, len, i + 1,
                [state |-> next,
                 out |-> Append(acc.out, next.current),
                 hits |-> Append(acc.hits,
                                 Over05(GetOr(trigger, i, 0), scale)),
                 from |-> Append(acc.from, st.current),
                 phases |-> Append(acc.phases, st.phase)])

UGEnvAR_process(st, trigger, att_dur, rel_dur, scale, len) ==
    UGEnvAR_loop(st, trigger, att_dur, rel_dur, scale, len, 0,
                 [state |-> st, out |-> <<>>, hits |-> <<>>, from |-> <<>>,
                  phases |-> <<>>])

\* A UGEnvAR driven directly, block after block: the trigger slice is of the
\* caller's choosing, attack_dur and release_dur are held at two values,
\* and the curves are unconnected. Samples are whole numbers of 1/EnvScale.
EnvScale == 2

EnvLen == 4

EnvMaxBlocks == 4

\* 0.5 and 1.0 (an unconnected trigger is 0.0)
EnvTriggers == {1, 2}

\* attack_dur: 0.5, 1.5 and 4.0; release_dur: 1.0, 2.0 and 8.0
EnvAttacks == {1, 3, 8}

EnvReleases == {2, 4, 16}

Held(value) == [i \in 1..EnvLen |-> value]

\* UGEnvAR::new()
EnvNew ==
    /\ env = Absent
    /\ \E a \in EnvAttacks, r \in EnvReleases :
           env' = [state |-> "ready", envelope |-> UGEnvAR_new,
                   attack_dur |-> a, release_dur |-> r,
                   calls |-> 0, pulse |-> <<>>, from_zero |-> FALSE,
                   from |-> Whole(0), from_phase |-> "Idle",
                   high |-> FALSE, run |-> 0, base |-> Whole(0),
                   edge_pulse |-> <<>>]
    /\ UNCHANGED <<gvars, twin, rec, sel, reply, gen>>

\* What a caller has seen of the envelope e after sample k of the block r:
\* the samples written since the last active trigger (pulse), that of the
\* trigger first, the value and the phase just before that trigger (from,
\* from_phase; from_zero when the value was 0.0), whether sample k's trigger
\* was active (high), the length of the last run of consecutive active
\* triggers (run), the value just before the run (base) and the samples
\* written since the run began (edge_pulse).
RECURSIVE Pulse(_, _, _)
Pulse(r, k, e) ==
    IF k > Len(r.out) THEN e
    ELSE IF r.hits[k]
         THEN Pulse(r, k + 1,
                  [e EXCEPT !.pulse = <<r.out[k]>>,
                            !.from_zero = (r.from[k] = Whole(0)),
                            !.from = r.from[k],
                            !.from_phase = r.phases[k],
                            !.high = TRUE,
                            !.run = IF e.high THEN e.run + 1 ELSE 1,
                            !.base = IF e.high THEN e.base ELSE r.from[k],
                            !.edge_pulse = IF e.high
                                           THEN Append(e.edge_pulse, r.out[k])
                                           ELSE <<r.out[k]>>])
         ELSE Pulse(r, k + 1,
                  [e EXCEPT !.pulse = IF e.pulse = <<>> THEN <<>>
                                      ELSE Append(e.pulse, r.out[k]),
                            !.high = FALSE,
                            !.edge_pulse = IF e.edge_pulse = <<>> THEN <<>>
                                           ELSE Append(e.edge_pulse, r.out[k])])

\* UGEnvAR::process on a block.
EnvProcess ==
    /\ env # Absent
    /\ env.calls < EnvMaxBlocks
    /\ \E trigger \in {<<>>} \cup [1..EnvLen -> EnvTriggers] :
           LET r == UGEnvAR_process(env.envelope, trigger,
                                    Held(env.attack_dur),
                                    Held(env.release_dur), EnvScale, EnvLen)
           IN env' = Pulse(r, 1, [env EXCEPT !.envelope = r.state,
                                             !.calls = env.calls + 1])
    /\ UNCHANGED <<gvars, twin, rec, sel, reply, gen>>

NextEnv ==
    \/ EnvNew
    \/ EnvProcess

SpecEnv == Init /\ [][NextEnv]_vars

\* ------------------------------------------------------ a breakpoint envelope

\* A select_next whose one sample has the trigger at 0.5.
select_next_half(st, step, scale) ==
    LET r == UGSelect_process(st, <<scale \div 2>>, <<step * scale>>, scale, 1)
    IN [state |-> r.state, value |-> r.out[1]]

\* UGSelect::select_next: one sample with the trigger at 1.0 and the step
\* given; the selector after it and the value selected.
select_next(st, step, scale) ==
    LET r == UGSelect_process(st, <<scale>>, <<step * scale>>, scale, 1)
    IN [state |-> r.state, value |-> r.out[1]]

\* step.get(i).copied().unwrap_or(1.0).max(1.0).round(), a whole number.
step_size_of(step, i, scale) ==
    LET s == GetOr(step, i, scale)
    IN round(IF s > scale THEN s ELSE scale, scale)

\* value.max(1.0).round() as usize
PulsesOf(value, scale) ==
    as_usize(round(IF value > scale THEN value ELSE scale, scale))

\* UGEnvBreakPoint::new(duration_values, duration_mode, level_values,
\* level_mode, Some(seed)): both selectors start from the seed's state.
UGEnvBreakPoint_new(duration_values, duration_mode, level_values, level_mode, rng) ==
    [current |-> 0, pulse_counter |-> 0, required_pulses |-> 1,
     duration_select |-> UGSelect_new(duration_values, duration_mode, rng),
     level_select |-> UGSelect_new(level_values, level_mode, rng)]

\* The draw of a new required pulse count and a new level.
BreakPointDraw(st, step, i, scale) ==
    LET d == select_next(st.duration_select, step_size_of(step, i, scale), scale)
        l == select_next(st.level_select, step_size_of(step, i, scale), scale)
    IN [st EXCEPT !.pulse_counter = 0,
                  !.required_pulses = PulsesOf(d.value, scale),
                  !.duration_select = d.state,
                  !.current = l.value,
                  !.level_select = l.state]

\* A loop body that counts every sample as a pulse, whatever the clock.
UGEnvBreakPoint_sample_unclocked(st, clock, step, i, scale) ==
    IF st.pulse_counter + 1 >= st.required_pulses
    THEN BreakPointDraw(st, step, i, scale)
    ELSE [st EXCEPT !.pulse_counter = st.pulse_counter + 1]

\* A loop body that draws one pulse late.
UGEnvBreakPoint_sample_late(st, clock, step, i, scale) ==
    IF Over05(GetOr(clock, i, 0), scale)
    THEN IF st.pulse_counter + 1 > st.required_pulses
         THEN BreakPointDraw(st, step, i, scale)
         ELSE [st EXCEPT !.pulse_counter = st.pulse_counter + 1]
    ELSE st

\* The body of the loop of UGEnvBreakPoint::process for sample i: the
\* envelope after it; the sample written is its current level.
UGEnvBreakPoint_sample(st, clock, step, i, scale) ==
    IF Over05(GetOr(clock, i, 0), scale)
    THEN IF st.pulse_counter + 1 >= st.required_pulses
         THEN BreakPointDraw(st, step, i, scale)
         ELSE [st EXCEPT !.pulse_counter = st.pulse_counter + 1]
    ELSE st

\* UGEnvBreakPoint::process from sample i on: the envelope at the end, the
\* block written, and for each sample whether its clock was above 0.5, the
\* step size read and the envelope just before it.
RECURSIVE UGEnvBreakPoint_loop(_, _, _, _, _, _, _)
UGEnvBreakPoint_loop(st, clock, step, scale, len, i, acc) ==
    IF i >= len THEN [acc EXCEPT !.state = st]
    ELSE LET next == UGEnvBreakPoint_sample(st, clock, step, i, scale)
         IN UGEnvBreakPoint_loop(next, clock, step, scale, len, i + 1,
                [state |-> next,
                 out |-> Append(acc.out, next.current),
                 highs |-> Append(acc.highs,
                                  Over05(GetOr(clock, i, 0), scale)),
                 steps |-> Append(acc.steps, step_size_of(step, i, scale)),
                 befores |-> Append(acc.befores, st)])

UGEnvBreakPoint_process(st, clock, step, scale, len) ==
    UGEnvBreakPoint_loop(st, clock, step, scale, len, 0,
        [state |-> st, out |-> <<>>, highs |-> <<>>, steps |-> <<>>,
         befores |-> <<>>])

\* A UGEnvBreakPoint driven directly, block after block, by clock slices of
\* the caller's choosing and a step that is unconnected or held at 2.0.
\* Samples and values are whole numbers of 1/BpScale.
BpScale == EnvScale

BpLen == 3

BpMaxBlocks == 3

\* durations 2.0 and 1.5; 1.0 and 3.0; 0.5
BpDurations == {<<4, 3>>, <<2, 6>>, <<1>>}

BpLevels == <<10, 20, 30>>

BpModes == {"Cycle", "Shuffle"}

\* 0.5 and 1.0 (an unconnected clock is 0.0)
BpClocks == {1, 2}

BpSteps == {<<>>, [i \in 1..BpLen |-> 4]}

\* UGEnvBreakPoint::new
BpNew ==
    /\ gen = Absent
    /\ \E durations \in BpDurations, mode \in BpModes, rng \in RngStates :
           LET fresh == UGEnvBreakPoint_new(durations, mode, BpLevels, mode, rng)
           IN gen' = [state |-> "breakpoint", envelope |-> fresh,
                      fresh |-> fresh, calls |-> 0, last_high |-> FALSE,
                      block |-> UGEnvBreakPoint_process(fresh, <<>>, <<>>,
                                                        BpScale, 0),
                      draws |-> <<>>]
    /\ UNCHANGED <<gvars, twin, rec, sel, env, reply>>

\* The envelope just after sample k of the block r.
After(r, k) == IF k < Len(r.out) THEN r.befores[k + 1] ELSE r.state

\* Sample k of the block r made a draw.
Drew(r, k) ==
    /\ r.highs[k]
    /\ r.befores[k].pulse_counter + 1 >= r.befores[k].required_pulses
    /\ After(r, k).pulse_counter = 0

\* One more pulse on the latest draw, if there is one.
OneMore(log) ==
    IF log = <<>> THEN log ELSE [log EXCEPT ![Len(log)].pulses = @ + 1]

\* The draws seen so far, each with the pulse count and the level drawn,
\* the step size read and the pulses since (its own not counted), after
\* sample k of the block r.
DrawLogged(r, k, draws) ==
    IF Drew(r, k)
    THEN Append(OneMore(draws),
                [required |-> After(r, k).required_pulses,
                 level |-> After(r, k).current,
                 step |-> r.steps[k], pulses |-> 0])
    ELSE IF r.highs[k] THEN OneMore(draws) ELSE draws

RECURSIVE Draws(_, _, _)
Draws(r, k, draws) ==
    IF k > Len(r.out) THEN draws
    ELSE Draws(r, k + 1, DrawLogged(r, k, draws))

\* UGEnvBreakPoint::process on a block.
BpProcess ==
    /\ gen # Absent
    /\ gen.state = "breakpoint"
    /\ gen.calls < BpMaxBlocks
    /\ \E clock \in {<<>>} \cup [1..BpLen -> BpClocks], step \in BpSteps :
           \E r \in {UGEnvBreakPoint_process(gen.envelope, clock, step,
                                            BpScale, BpLen)} :
              gen' = [gen EXCEPT
                         !.envelope = r.state,
                         !.calls = gen.calls + 1,
                         !.last_high = gen.block.highs # <<>>
                                       /\ gen.block.highs[BpLen],
                         !.block = r,
                         !.draws = Draws(r, 1, gen.draws)]
    /\ UNCHANGED <<gvars, twin, rec, sel, env, reply>>

NextBp ==
    \/ BpNew
    \/ BpProcess

SpecBp == Init /\ [][NextBp]_vars

\* ----------------------------------------------------------- a pulse selector

\* UGPulseSelect::new(duration_values, duration_mode, Some(seed))
UGPulseSelect_new(duration_values, duration_mode, rng) ==
    [pulse_count |-> 0, pulse_target |-> 1,
     duration_select |-> UGSelect_new(duration_values, duration_mode, rng)]

\* A loop body that ends a run one pulse late.
UGPulseSelect_sample_late(st, clock, step, i, scale) ==
    IF Over05(GetOr(clock, i, 0), scale)
    THEN LET d == select_next(st.duration_select,
                              step_size_of(step, i, scale), scale)
             drawn == IF st.pulse_count = 0
                      THEN [st EXCEPT !.pulse_target = PulsesOf(d.value, scale),
                                      !.duration_select = d.state]
                      ELSE st
             count == st.pulse_count + 1
         IN [state |-> [drawn EXCEPT !.pulse_count =
                           IF count > drawn.pulse_target THEN 0 ELSE count],
             out |-> IF st.pulse_count = 0 THEN scale ELSE 0]
    ELSE [state |-> st, out |-> 0]

\* The body of the loop of UGPulseSelect::process for sample i: the
\* generator after it and the sample written.
UGPulseSelect_sample(st, clock, step, i, scale) ==
    IF Over05(GetOr(clock, i, 0), scale)
    THEN LET d == select_next(st.duration_select,
                              step_size_of(step, i, scale), scale)
             drawn == IF st.pulse_count = 0
                      THEN [st EXCEPT !.pulse_target = PulsesOf(d.value, scale),
                                      !.duration_select = d.state]
                      ELSE st
             count == st.pulse_count + 1
         IN [state |-> [drawn EXCEPT !.pulse_count =
                           IF count >= drawn.pulse_target THEN 0 ELSE count],
             out |-> IF st.pulse_count = 0 THEN scale ELSE 0]
    ELSE [state |-> st, out |-> 0]

\* UGPulseSelect::process from sample i on: the generator at the end, the
\* block written, and for each sample whether its clock was above 0.5, the
\* step size read and the pulse target after it.
RECURSIVE UGPulseSelect_loop(_, _, _, _, _, _, _)
UGPulseSelect_loop(st, clock, step, scale, len, i, acc) ==
    IF i >= len THEN [acc EXCEPT !.state = st]
    ELSE LET s == UGPulseSelect_sample(st, clock, step, i, scale)
         IN UGPulseSelect_loop(s.state, clock, step, scale, len, i + 1,
                [state |-> s.state,
                 out |-> Append(acc.out, s.out),
                 highs |-> Append(acc.highs,
                                  Over05(GetOr(clock, i, 0), scale)),
                 steps |-> Append(acc.steps, step_size_of(step, i, scale)),
                 targets |-> Append(acc.targets, s.state.pulse_target)])

UGPulseSelect_process(st, clock, step, scale, len) ==
    UGPulseSelect_loop(st, clock, step, scale, len, 0,
        [state |-> st, out |-> <<>>, highs |-> <<>>, steps |-> <<>>,
         targets |-> <<>>])

\* A UGPulseSelect driven directly, block after block, as the breakpoint
\* envelope above.
PsNew ==
    /\ gen = Absent
    /\ \E durations \in BpDurations, mode \in BpModes, rng \in RngStates :
           LET fresh == UGPulseSelect_new(durations, mode, rng)
           IN gen' = [state |-> "pulse_select", selector |-> fresh,
                      fresh |-> fresh, calls |-> 0,
                      block |-> UGPulseSelect_process(fresh, <<>>, <<>>,
                                                      BpScale, 0),
                      runs |-> <<>>]
    /\ UNCHANGED <<gvars, twin, rec, sel, env, reply>>

\* The runs seen so far, a run starting on each sample written 1.0: the
\* pulse target after that sample, the step size read and the pulses of
\* the run, its first included; after sample k of the block r.
RunLogged(r, k, runs) ==
    IF r.out[k] = BpScale
    THEN Append(runs, [target |-> r.targets[k],
                       step |-> r.steps[k], pulses |-> 1])
    ELSE IF r.highs[k] THEN OneMore(runs) ELSE runs

RECURSIVE Runs(_, _, _)
Runs(r, k, runs) ==
    IF k > Len(r.out) THEN runs
    ELSE Runs(r, k + 1, RunLogged(r, k, runs))

\* UGPulseSelect::process on a block.
PsProcess ==
    /\ gen # Absent
    /\ gen.state = "pulse_select"
    /\ gen.calls < BpMaxBlocks
    /\ \E clock \in {<<>>} \cup [1..BpLen -> BpClocks], step \in BpSteps :
           \E r \in {UGPulseSelect_process(gen.selector, clock, step,
                                          BpScale, BpLen)} :
              gen' = [gen EXCEPT !.selector = r.state,
                                 !.calls = gen.calls + 1,
                                 !.block = r,
                                 !.runs = Runs(r, 1, gen.runs)]
    /\ UNCHANGED <<gvars, twin, rec, sel, env, reply>>

NextPs ==
    \/ PsNew
    \/ PsProcess

SpecPs == Init /\ [][NextPs]_vars

\* --------------------------------------------------------------- a clock alone

\* A UGClock of a period of the caller's choosing, driven directly in blocks
\* of a length fixed at the start, its gate unconnected or connected to
\* slices of 0.0 and 1.0.
ClkValues == {2, 3, 5}

ClkLens == {2, 3, 4}

ClkMaxBlocks == 3

\* UGClock::new(value, UnitRate::Samples)
ClkNew ==
    /\ gen = Absent
    /\ \E value \in ClkValues, len \in ClkLens, connected \in BOOLEAN :
           gen' = [state |-> "clock", value |-> value, len |-> len,
                   connected |-> connected, phase |-> 0, calls |-> 0,
                   out |-> <<>>, on |-> <<>>, before |-> <<>>, after |-> <<>>]
    /\ UNCHANGED <<gvars, twin, rec, sel, env, reply>>

\* The phase before each sample of a block that starts at phase and has the
\* phases given after its samples.
PhasesBefore(phase, phases) ==
    [k \in 1..Len(phases) |-> IF k = 1 THEN phase ELSE phases[k - 1]]

\* UGClock::process on a block: the samples written, the gate and the phase
\* around each sample are appended to the record of the run.
ClkProcess ==
    /\ gen # Absent
    /\ gen.state = "clock"
    /\ gen.calls < ClkMaxBlocks
    /\ \E enabled \in IF gen.connected THEN [1..gen.len -> {0, 1}]
                      ELSE {<<>>} :
         \E r \in {UGClock_process(gen.value, gen.len, enabled, gen.phase)} :
           gen' = [gen EXCEPT
                      !.phase = r.phase,
                      !.calls = gen.calls + 1,
                      !.out = gen.out \o r.out,
                      !.on = gen.on \o [k \in 1..gen.len |->
                                           GetOr(enabled, k - 1, 1) = 1],
                      !.before = gen.before \o PhasesBefore(gen.phase, r.phases),
                      !.after = gen.after \o r.phases]
    /\ UNCHANGED <<gvars, twin, rec, sel, env, reply>>

NextClk ==
    \/ ClkNew
    \/ ClkProcess

SpecClk == Init /\ [][NextClk]_vars

\* ------------------------------------------------------------ a sum generator

DigitChars == <<"0", "1", "2", "3", "4", "5", "6", "7", "8", "9">>

\* format!("{}", i) of a usize.
RECURSIVE Decimal(_)
Decimal(i) ==
    IF i < 10 THEN <<DigitChars[i + 1]>>
    ELSE Append(Decimal(i \div 10), DigitChars[(i % 10) + 1])

\* UGSum::new(input_count): a panic for a count of 0 or 1, else the labels
\* format!("in{}", i) for i in 1..input_count + 1. The sum input_count + 1
\* is a usize: past the largest it panics where overflow is checked and
\* wraps to 0 where it is not, leaving the range empty.
UGSum_new(input_count, overflow_checks) ==
    IF input_count <= 1 THEN [panicked |-> TRUE, input_refs |-> <<>>]
    ELSE IF input_count + 1 > UsizeMax /\ overflow_checks
    THEN [panicked |-> TRUE, input_refs |-> <<>>]
    ELSE [panicked |-> FALSE,
          input_refs |-> [i \in 1..(wrapping_add(input_count, 1) - 1)
                             |-> S_in \o Decimal(i)]]

\* The sample i of the sum of the first k inputs.
RECURSIVE SumAt(_, _, _)
SumAt(inputs, k, i) ==
    IF k = 0 THEN 0 ELSE SumAt(inputs, k - 1, i) + inputs[k][i]

\* A sum that takes its two-operand path whatever the number of inputs.
UGSum_process_pair(inputs, len) ==
    [i \in 1..len |-> IF Len(inputs) >= 2 THEN inputs[1][i] + inputs[2][i]
                      ELSE 0]

\* UGSum::process for any number of inputs, on a block of len samples.
UGSum_process_any(inputs, len) ==
    IF Len(inputs) = 2
    THEN [i \in 1..len |-> inputs[1][i] + inputs[2][i]]
    ELSE [i \in 1..len |-> SumAt(inputs, Len(inputs), i)]

\* A UGSum constructed with a count of the caller's choosing, in a build
\* with or without overflow checks, and run on blocks of two samples with
\* one block on its odd inputs and one on its even inputs.
SumBlocks == {<<0, 0>>, <<1, 0>>, <<1, 2>>}

SumMaxBlocks == 2

\* UGSum::new
SumNew ==
    /\ gen = Absent
    /\ \E input_count \in 0..UsizeMax, overflow_checks \in BOOLEAN :
         \E r \in {UGSum_new(input_count, overflow_checks)} :
           gen' = [state |-> "sum", input_count |-> input_count,
                   panicked |-> r.panicked,
                   input_names |-> r.input_refs,
                   output_names |-> <<S_out>>,
                   calls |-> 0, out |-> <<>>, odd |-> <<>>, even |-> <<>>]
    /\ UNCHANGED <<gvars, twin, rec, sel, env, reply>>

\* UGSum::process with every input connected.
SumProcess ==
    /\ gen # Absent
    /\ gen.state = "sum"
    /\ ~gen.panicked
    /\ gen.calls < SumMaxBlocks
    /\ \E odd \in SumBlocks, even \in SumBlocks :
           gen' = [gen EXCEPT
                      !.calls = gen.calls + 1,
                      !.odd = odd,
                      !.even = even,
                      !.out = UGSum_process_any(
                                  [k \in 1..Len(gen.input_names) |->
                                      IF k % 2 = 1 THEN odd ELSE even], 2)]
    /\ UNCHANGED <<gvars, twin, rec, sel, env, reply>>

NextSum ==
    \/ SumNew
    \/ SumProcess

SpecSum == Init /\ [][NextSum]_vars

\* ------------------------------------------------------ an unconnected input

\* What a generator's process obtains for sample i of its p-th input, given
\* the slice the graph passes for it (empty when the port is unconnected):
\* slice.get(i).copied().unwrap_or(d) yields the sample or d, slice[i] the
\* sample or a panic; UGTrigger does not read sample 0.
Got(value) == [read |-> TRUE, panicked |-> FALSE, value |-> value]

Indexed(slice, i) ==
    IF i < Len(slice) THEN Got(slice[i + 1])
    ELSE [read |-> TRUE, panicked |-> TRUE, value |-> 0]

\* UGLowPass: input[i] for "in", cutoff.get(i).copied().unwrap_or(1000.0)
\* for "cutoff".
UGLowPass_input(p, slice, i) ==
    IF p = 1 THEN Indexed(slice, i) ELSE Got(GetOr(slice, i, 1000))

\* UGTrigger: rate[i] for every sample but the first, which is not read.
UGTrigger_input(slice, i) ==
    IF i = 0 THEN [read |-> FALSE, panicked |-> FALSE, value |-> 0]
    ELSE Indexed(slice, i)

\* UGSum: a[i], b[i] and input[i].
UGSum_input(slice, i) == Indexed(slice, i)

ProcessRead(kind, p, slice, i) ==
    CASE kind = "UGClock" -> Got(GetOr(slice, i, 1))
      [] kind = "UGSelect" /\ p = 1 -> Got(GetOr(slice, i, 0))
      [] kind = "UGSelect" /\ p = 2 -> Got(GetOr(slice, i, 1))
      [] kind = "UGSine" ->
             Got(GetOr(slice, i,
                       default_input(kind, input_names(kind)[p]).value))
      [] kind = "UGSum" -> UGSum_input(slice, i)
      [] kind = "UGTrigger" -> UGTrigger_input(slice, i)
      [] kind = "UGLowPass" -> UGLowPass_input(p, slice, i)

\* The generators probed, each registered alone in a graph.
ProbeKinds == {"UGClock", "UGSelect", "UGSine", "UGSum", "UGTrigger",
               "UGLowPass"}

ProbeBlocks == {<<>>, <<0, 0>>, <<2, 3>>}

ProbeMaxBlocks == 2

\* add_node of one generator.
ProbeNew ==
    /\ gen = Absent
    /\ \E kind \in ProbeKinds :
           gen' = [state |-> "probe", kind |-> kind, calls |-> 0,
                   slices |-> <<>>, reads |-> <<>>,
                   defaults |-> [p \in 1..Len(input_names(kind)) |->
                                    default_input(kind, input_names(kind)[p])]]
    /\ UNCHANGED <<gvars, twin, rec, sel, env, reply>>

\* process() of the graph with each input connected to a block or left
\* unconnected: what the generator obtained for each sample of each input.
ProbeProcess ==
    /\ gen # Absent
    /\ gen.state = "probe"
    /\ gen.calls < ProbeMaxBlocks
    /\ \E slices \in [1..Len(input_names(gen.kind)) -> ProbeBlocks] :
           gen' = [gen EXCEPT
                      !.calls = gen.calls + 1,
                      !.slices = slices,
                      !.reads = [p \in 1..Len(slices) |->
                                    [k \in 1..buffer_size |->
                                        ProcessRead(gen.kind, p, slices[p],
                                                    k - 1)]]]
    /\ UNCHANGED <<gvars, twin, rec, sel, env, reply>>

NextProbe ==
    \/ ProbeNew
    \/ ProbeProcess

SpecProbe == Init /\ [][NextProbe]_vars

\* ------------------------------------------------------ a sine oscillator

\* Sample is f32: a binary floating-point number whose sums and products are
\* rounded to the nearest representable value, ties to the even significand.
\* The model keeps the format and shortens the significand from 24 bits to
\* MantBits; a value is counted in units of 2^-FracBits, the smallest
\* quantity the format holds, and only values >= 0 are rounded here.
MantBits == 3

FracBits == MantBits

One == 2 ^ FracBits

RECURSIVE Log2(_)
Log2(n) == IF n < 2 THEN 0 ELSE 1 + Log2(n \div 2)

\* The distance between neighbouring representable values at num / den.
Ulp(num, den) ==
    IF num \div den < 2 ^ MantBits THEN 1
    ELSE 2 ^ (Log2(num \div den) - MantBits + 1)

\* The representable value nearest to num / den.
f32_round(num, den) ==
    LET d == den * Ulp(num, den)
        q == num \div d
        r == num - q * d
        up == 2 * r > d \/ (2 * r = d /\ q % 2 = 1)
    IN  (IF up THEN q + 1 ELSE q) * Ulp(num, den)

f32_add(a, b) == f32_round(a + b, 1)

f32_sub(a, b) == f32_round(a - b, 1)

f32_mul(a, b) == f32_round(a * b, One)

f32_div(a, b) == f32_round(a * One, b)

\* UGSine::new(): phase 0.0 and the default frequency 440.0.
UGSine_new ==
    [phase |-> 0, default_freq |-> 440 * One]

\* One sample of UGSine::process: the accumulator after the addition
\* (sum), whether it crossed 1.0, and the phase kept. The wave output is a
\* sine of the phase and is not computed.
UGSine_sample(phase, freq_in, i, dt, default_freq) ==
    LET freq == GetOr(freq_in, i, default_freq)
        sum == f32_add(phase, f32_mul(freq, dt))
        crossed == sum >= One
    IN  [inc |-> f32_mul(freq, dt),
         sum |-> sum,
         phase |-> IF crossed THEN f32_sub(sum, One) ELSE sum,
         trigger |-> IF crossed THEN One ELSE 0]

RECURSIVE UGSine_loop(_, _, _, _, _, _)
UGSine_loop(phase, freq_in, dt, default_freq, i, len) ==
    IF i >= len THEN <<>>
    ELSE <<UGSine_sample(phase, freq_in, i, dt, default_freq)>>
         \o UGSine_loop(UGSine_sample(phase, freq_in, i, dt,
                                      default_freq).phase,
                        freq_in, dt, default_freq, i + 1, len)

\* process(): dt = 1.0 / sample_rate, then the samples in turn.
UGSine_process(st, freq_in, rate, len) ==
    UGSine_loop(st.phase, freq_in, f32_div(One, rate), st.default_freq,
                0, len)

SineLen == 3

SineMaxBlocks == 3

\* Sample rates 1, 2 and 5, and frequencies 0, 0.875, 1 and 2.
SineRates == {One, 2 * One, 5 * One}

SineFreqs == {0, One - 1, One, 2 * One}

SineBlocks ==
    {<<>>} \cup {[i \in 1..SineLen |-> f] : f \in SineFreqs}
           \cup {<<One - 1, One, 0>>, <<One, 0, One - 1>>}

SineNew ==
    /\ gen = Absent
    /\ \E rate \in SineRates :
           gen' = [state |-> "sine", sample_rate |-> rate,
                   node |-> UGSine_new, calls |-> 0, run |-> <<>>,
                   freqs |-> {}, since |-> 0, pulses |-> 0, gaps |-> {}]
    /\ UNCHANGED <<gvars, twin, rec, sel, env, reply>>

\* The distances between successive trigger pulses of a run that continues
\* a count of `since` samples after the last pulse.
RECURSIVE Gaps(_, _, _, _)
Gaps(run, k, since, pulses) ==
    IF k > Len(run) THEN [since |-> since, pulses |-> pulses, gaps |-> {}]
    ELSE IF run[k].trigger = One
         THEN [Gaps(run, k + 1, 0, pulses + 1) EXCEPT
                  !.gaps = @ \cup (IF pulses > 0 THEN {since + 1} ELSE {})]
         ELSE Gaps(run, k + 1, since + 1, pulses)

SineProcess ==
    /\ gen # Absent
    /\ gen.state = "sine"
    /\ gen.calls < SineMaxBlocks
    /\ \E freq_in \in SineBlocks :
       \E run \in {UGSine_process(gen.node, freq_in, gen.sample_rate,
                                  SineLen)} :
       \E g \in {Gaps(run, 1, gen.since, gen.pulses)} :
           gen' = [gen EXCEPT
                      !.calls = gen.calls + 1,
                      !.node.phase = run[SineLen].phase,
                      !.run = run,
                      !.freqs = @ \cup {GetOr(freq_in, k - 1,
                                              gen.node.default_freq) :
                                        k \in 1..SineLen},
                      !.since = g.since,
                      !.pulses = g.pulses,
                      !.gaps = @ \cup g.gaps]
    /\ UNCHANGED <<gvars, twin, rec, sel, env, reply>>

NextSine ==
    \/ SineNew
    \/ SineProcess

SpecSine == Init /\ [][NextSine]_vars

\* ------------------------------------------------------------ graph theory

Range(seq) == {seq[i] : i \in 1..Len(seq)}

NoRepeats(seq) == \A i, j \in 1..Len(seq) : seq[i] = seq[j] => i = j

\* The 1-based place of n in seq (n occurs in seq).
IndexOf(seq, n) == CHOOSE i \in 1..Len(seq) : seq[i] = n

\* The edges of the graph as <<source, destination>> pairs.
EdgePairs(ns) ==
    UNION {{<<ns[t + 1].inputs[k].src, t>> : k \in 1..Len(ns[t + 1].inputs)} :
              t \in NodeIds(ns)}

\* The nodes that a path of one or more of the edges leads to from a node
\* of S.
RECURSIVE ReachIn(_, _, _)
ReachIn(pairs, S, fuel) ==
    LET next == {e[2] : e \in {d \in pairs : d[1] \in S}}
    IN IF fuel = 0 \/ next = {} THEN next
       ELSE next \cup ReachIn(pairs, next, fuel - 1)

ReachFrom(ns, S, fuel) == ReachIn(EdgePairs(ns), S, fuel)

Downstream(ns, n) == ReachFrom(ns, {n}, Len(ns))

OnCycle(ns, n) == n \in Downstream(ns, n)

Acyclic(ns) == \A n \in NodeIds(ns) : ~OnCycle(ns, n)

\* The nodes on a cycle or downstream of one.
Excluded(ns) ==
    LET cyclic == {m \in NodeIds(ns) : OnCycle(ns, m)}
    IN IF cyclic = {} THEN {} ELSE cyclic \cup ReachFrom(ns, cyclic, Len(ns))

\* ------------------------------------------------------------------ claims

\* C1: in every graph that add_node and connect calls can build, the
\* execution order lists no node twice and, for every edge whose source and
\* destination are both in the order, lists the source strictly before the
\* destination.
C1_SourceBeforeDestination ==
    LET o == get_execution_node_ids(nodes)
    IN /\ NoRepeats(o)
       /\ \A e \in EdgePairs(nodes) :
              (e[1] \in Range(o) /\ e[2] \in Range(o))
                  => IndexOf(o, e[1]) < IndexOf(o, e[2])

\* C1 witness: an edge whose source is stored after its destination, both
\* of them scheduled.
C1_Witness ==
    LET o == get_execution_node_ids(nodes)
    IN \E e \in EdgePairs(nodes) :
           e[1] > e[2] /\ e[1] \in Range(o) /\ e[2] \in Range(o)

\* C2: in an acyclic graph (one source may feed several inputs of one
\* destination) the execution order is a permutation of the registered
\* nodes, and a process() call that reaches its end has invoked every node
\* exactly once, each with the value time_sample had before the call
\* advances it.
C2_EachNodeOncePerBlock ==
    Acyclic(nodes) =>
        /\ LET o == get_execution_node_ids(nodes)
           IN NoRepeats(o) /\ Range(o) = NodeIds(nodes)
        /\ (pc = "processing" /\ pos > Len(order)) =>
              /\ \A n \in NodeIds(nodes) :
                     Cardinality({i \in 1..Len(invoked) : invoked[i][1] = n}) = 1
              /\ Len(invoked) = Len(nodes)
              /\ \A i \in 1..Len(invoked) :
                     invoked[i][2] = time_sample /\ invoked[i][2] = blocks * buffer_size

\* C2 witness: a process() call at its end, in a graph where one source
\* feeds both inputs of a sum.
C2_Witness ==
    /\ pc = "processing" /\ pos > Len(order)
    /\ Acyclic(nodes)
    /\ \E t \in NodeIds(nodes) :
           /\ Len(nodes[t + 1].inputs) = 2
           /\ nodes[t + 1].inputs[1].src = nodes[t + 1].inputs[2].src

\* C3: whenever process() is about to invoke a node, every connected input
\* slice of the node is the output buffer its edge names, and that buffer
\* was written by the source node during this same process() call.
C3_InputsAreFresh ==
    (pc = "processing" /\ pos <= Len(order)) =>
        LET nid == order[pos]
            edges == nodes[nid + 1].inputs
        IN \A k \in 1..Len(edges) :
               /\ edges[k].src # nid
               /\ written[edges[k].src + 1] = blocks + 1
               /\ input_slices(nodes, nid)[edges[k].input_index + 1]
                      = nodes[edges[k].src + 1].outputs[edges[k].output_index + 1]

\* C3 witness: in a process() call after the first, a node about to be
\* invoked reads from a source that is stored after it and that the call
\* has already written.
C3_Witness ==
    /\ pc = "processing" /\ pos <= Len(order)
    /\ blocks >= 1
    /\ \E k \in 1..Len(nodes[order[pos] + 1].inputs) :
           LET src == nodes[order[pos] + 1].inputs[k].src
           IN src > order[pos] /\ written[src + 1] = blocks + 1

\* ------------------------------------------- what a label asks connect for

Registered(name) == name \in DOMAIN name_to_node_id

NodeNamed(name) == nodes[name_to_node_id[name] + 1]

Declares(names, port) == \E i \in 1..Len(names) : names[i] = port

NoDot(label) == \A i \in 1..Len(label) : label[i] # "."

\* The text before and after the last '.' of a label that has one.
NamePart(label) == SubSeq(label, 1, LastDot(label, Len(label)) - 1)

PortPart(label) == SubSeq(label, LastDot(label, Len(label)) + 1, Len(label))

UnknownNode(label) == ~NoDot(label) /\ ~Registered(NamePart(label))

\* The label names a registered node and one of its declared outputs.
GoodOutput(label) ==
    /\ ~NoDot(label)
    /\ Registered(NamePart(label))
    /\ Declares(output_names(NodeNamed(NamePart(label)).kind), PortPart(label))

\* The label names a registered node and one of its declared inputs.
GoodInput(label) ==
    /\ ~NoDot(label)
    /\ Registered(NamePart(label))
    /\ Declares(input_names(NodeNamed(NamePart(label)).kind), PortPart(label))

\* C4: a connect to a declared input that already has an incoming edge
\* always panics (duplicate connection) and leaves every node, so every edge
\* list, as it was.
C4_SecondEdgeRejected ==
    [][\A src \in OutputLabels :
          \A t \in 1..Len(nodes) : \A k \in 1..Len(nodes[t].inputs) :
              connect(src, Label(nodes[t].name,
                                 input_names(nodes[t].kind)[nodes[t].inputs[k].input_index + 1]))
                  => (result' = "ConnectionError" /\ pc' = "panicked" /\ nodes' = nodes)]_vars

\* C4 witness: a connect has panicked on a duplicate connection in a graph
\* that holds an edge.
C4_Witness == result = "ConnectionError" /\ EdgePairs(nodes) # {}

NamesUnique ==
    \A i, j \in 1..Len(nodes) : nodes[i].name = nodes[j].name => i = j

\* C5: an add_node under a registered name panics (naming error) and leaves
\* the node list with its buffers and the name index as they were; the names
\* of the nodes of every reachable graph are distinct.
C5_DuplicateNameRejected ==
    /\ []NamesUnique
    /\ [][\A name \in DOMAIN name_to_node_id, kind \in Kinds :
             add_node(name, kind)
                 => /\ result' = "NamingError" /\ pc' = "panicked"
                    /\ nodes' = nodes
                    /\ name_to_node_id' = name_to_node_id]_vars

\* C5 witness: an add_node has panicked on a name in use.
C5_Witness == result = "NamingError" /\ Len(nodes) >= 1

\* C6: a connect panics and leaves every node as it was when a label has no
\* '.', when a label names an unregistered node, and when the source names
\* no declared output or the destination no declared input.
C6_BadLabelRejected ==
    [][\A call \in (BadLabels \X {AnInput}) \cup ({AnOutput} \X BadLabels) :
          connect(call[1], call[2]) =>
              /\ (NoDot(call[1]) \/ NoDot(call[2]))
                     => (result' = "LabelFormatError" /\ nodes' = nodes)
              /\ (~NoDot(call[1]) /\ ~NoDot(call[2])
                    /\ (UnknownNode(call[1]) \/ UnknownNode(call[2])))
                     => (result' = "LookupError" /\ nodes' = nodes)
              /\ (~NoDot(call[1]) /\ ~NoDot(call[2])
                    /\ Registered(NamePart(call[1])) /\ Registered(NamePart(call[2]))
                    /\ (~GoodOutput(call[1]) \/ ~GoodInput(call[2])))
                     => (result' = "PortError" /\ nodes' = nodes)
              /\ (~GoodOutput(call[1]) \/ ~GoodInput(call[2]))
                     => (pc' = "panicked" /\ nodes' = nodes)]_vars

\* C6 witness: a connect has panicked on an undeclared port of a registered
\* node in a graph that holds an edge.
C6_Witness == result = "PortError" /\ EdgePairs(nodes) # {}

\* C7: time_sample is 0 at construction and is buffer_size times the number
\* of process() calls that have returned; a step changes it only as the
\* return of a process() call, and then by exactly buffer_size.
C7_TimeAdvancesPerBlock ==
    /\ [](time_sample = blocks * buffer_size)
    /\ [][/\ time_sample' # time_sample
             => (pc = "processing" /\ pc' = "idle")
          /\ (pc = "processing" /\ pc' = "idle")
             => (time_sample' = time_sample + buffer_size /\ blocks' = blocks + 1)]_vars

\* C7 witness: two process() calls have returned, the second having invoked
\* a node, on a graph built with add_node and connect calls.
C7_Witness ==
    /\ blocks = 2
    /\ time_sample = 2 * buffer_size
    /\ EdgePairs(nodes) # {}
    /\ \E i \in 1..Len(nodes) : written[i] = 2

\* seq is a topological order of the nodes of ns that are neither on a cycle
\* nor downstream of one.
TopologicalOrder(ns, seq) ==
    /\ NoRepeats(seq)
    /\ Range(seq) = NodeIds(ns) \ Excluded(ns)
    /\ \A e \in EdgePairs(ns) :
           (e[1] \in Range(seq) /\ e[2] \in Range(seq))
               => IndexOf(seq, e[1]) < IndexOf(seq, e[2])

\* C8: the order a process() call works through is a topological order of
\* the graph as it is during that call, and the names a query returns are
\* those of the outputs in such an order of the graph as it is then, whatever
\* add_node, connect and process calls came before.
C8_OrderFollowsTopology ==
    /\ pc = "processing"
           => (order = get_execution_node_ids(nodes) /\ TopologicalOrder(nodes, order))
    /\ ret # <<>>
           => /\ ret = LabelsOf(nodes, get_execution_node_ids(nodes))
              /\ TopologicalOrder(nodes, get_execution_node_ids(nodes))

\* C8 witness: a process() call after an earlier one has in its order a node
\* that was registered, and connected to an older node, after the earlier
\* call returned.
C8_Witness ==
    /\ pc = "processing"
    /\ blocks >= 1
    /\ \E n \in Range(order) :
           /\ written[n + 1] = 0
           /\ \E e \in EdgePairs(nodes) :
                  e[2] = n /\ e[1] # n /\ written[e[1] + 1] >= 1

\* C9: a process() call or a query that follows a read of the order with no
\* add_node or connect in between does not run the topological sort.
C9_RepeatedReadsDoNotSort ==
    [][(~changed /\ (ProcessBegin \/ GetOutputNames)) => ~sorted']_vars

AllZeros(buffers) ==
    \A o \in 1..Len(buffers) : \A i \in 1..Len(buffers[o]) : buffers[o][i] = 0

Seeded(log) ==
    \A k \in 1..Len(log) :
        log[k].op = "add_node" => log[k].b[1] # "UGSelect_unseeded"

PortsOutside(ns, S) ==
    LET RECURSIVE Sum(_)
        Sum(i) == IF i = 0 THEN 0
                  ELSE (IF (i - 1) \in S THEN 0
                        ELSE Len(output_names(ns[i].kind))) + Sum(i - 1)
    IN Sum(Len(ns))

Recorded == rec # Absent /\ rec.state = "done"

CeilDiv(n, d) ==
    CHOOSE c \in 0..n : c * d >= n /\ \A b \in 0..n : b * d >= n => c <= b

\* The nodes after k process() calls.
RECURSIVE AfterBlocks(_, _)
AfterBlocks(ns, k) ==
    IF k = 0 THEN ns
    ELSE AfterBlocks(RunOrder(ns, get_execution_node_ids(ns), 1).nodes, k - 1)

\* The buffer that a label of a declared output names.
BufferOf(ns, label) ==
    LET i == CHOOSE j \in 1..Len(ns) :
                 \E o \in 1..Len(output_names(ns[j].kind)) :
                     Label(ns[j].name, output_names(ns[j].kind)[o]) = label
        o == CHOOSE q \in 1..Len(output_names(ns[i].kind)) :
                 Label(ns[i].name, output_names(ns[i].kind)[q]) = label
    IN ns[i].outputs[o]

\* The buffer of the label after each of the first k process() calls, end to
\* end.
RECURSIVE Concatenation(_, _, _)
Concatenation(ns, label, k) ==
    IF k = 0 THEN <<>>
    ELSE Concatenation(ns, label, k - 1) \o BufferOf(AfterBlocks(ns, k), label)

\* C13: when from_samples(graph, labels, N) returns it has called process()
\* ceil(N / buffer_size) times, and what it holds under each label is N
\* samples long: the first N samples of the label's buffer after each call,
\* end to end, from the state the graph was handed over in.
C13_RecordsFirstNSamples ==
    Recorded =>
        /\ rec.calls = CeilDiv(rec.total_samples, buffer_size)
        /\ \A l \in DOMAIN rec.recorded :
               /\ Len(rec.recorded[l]) = rec.total_samples
               /\ rec.recorded[l] =
                      SubSeq(Concatenation(rec.start, l,
                                 CeilDiv(rec.total_samples, buffer_size)),
                             1, rec.total_samples)

\* Three samples are recorded in two blocks, the fourth sample cut off, under
\* a label whose samples are not all zero.
C13_Witness ==
    /\ Recorded
    /\ rec.total_samples = 3
    /\ rec.calls = 2
    /\ \E l \in DOMAIN rec.recorded :
           /\ Len(rec.recorded[l]) = 3
           /\ rec.recorded[l][3] # 0

AQuery == GetOutputs \/ GetOutputNames \/ GetOutputByLabel \/ DescribeJson

\* C14: get_outputs, get_output_names, get_output_by_label and describe_json
\* leave the nodes, their buffers, the names and the time counter as they
\* are, and what a query returns is what the same query returns when it is
\* called again.
C14_QueriesChangeNothing ==
    [][/\ AQuery => UNCHANGED <<nodes, name_to_node_id, time_sample, blocks,
                               written, twin, rec, sel, env>>
       /\ GetOutputs => reply'.value = get_outputs(nodes')
       /\ GetOutputNames => ret' = get_output_names(nodes')
       /\ DescribeJson =>
              reply'.value = describe_json(nodes', name_to_node_id')
       /\ (GetOutputByLabel /\ pc' = "idle") =>
              reply'.value = get_output_by_label(nodes', name_to_node_id',
                                                 reply'.arg).ref]_vars

\* get_outputs has returned the buffers of a graph that was processed, one of
\* them not zero.
C14_Witness ==
    /\ pc = "idle"
    /\ blocks >= 1
    /\ result = "ok"
    /\ EdgePairs(nodes) # {}
    /\ reply = Reply("get_outputs", <<>>, get_outputs(nodes))
    /\ Len(reply.value) >= 2
    /\ \E k \in 1..Len(reply.value) : reply.value[k].buffer[1] # 0

\* What get_outputs and get_output_names list: the same labels; each the
\* label "<node>.<port>" of a declared output of a registered node, with a
\* reference to that output's buffer, the one get_output_by_label returns; no
\* output twice; the nodes in execution order and the ports of a node in
\* declared order.
ListsOutputs(ns, ids, outs, names) ==
    LET ord == get_execution_node_ids(ns)
    IN /\ Len(names) = Len(outs)
       /\ \A k \in 1..Len(outs) :
              /\ names[k] = outs[k].label
              /\ outs[k].node \in NodeIds(ns)
              /\ outs[k].index \in
                     0..(Len(output_names(ns[outs[k].node + 1].kind)) - 1)
              /\ outs[k].label =
                     Label(ns[outs[k].node + 1].name,
                           output_names(ns[outs[k].node + 1].kind)
                               [outs[k].index + 1])
              /\ outs[k].buffer = ns[outs[k].node + 1].outputs[outs[k].index + 1]
              /\ get_output_by_label(ns, ids, outs[k].label) =
                     [result |-> "ok", ref |-> <<outs[k]>>]
       /\ \A j, k \in 1..Len(outs) :
              j < k =>
                  IF outs[j].node = outs[k].node
                  THEN outs[j].index < outs[k].index
                  ELSE \E p, q \in 1..Len(ord) :
                           p < q /\ ord[p] = outs[j].node /\ ord[q] = outs[k].node

C16_UnconnectedInputsAreDefaulted ==
    /\ result # "GeneratorPanic"
    /\ (pc = "processing" /\ pos <= Len(order)) =>
           ~NodePanics(nodes, order[pos])

\* C17: a step changes the output buffers of a node only when it is the turn
\* of process() that invokes the generator of that very node; the invocation
\* of node n leaves the output buffers of every other node, and the set of
\* nodes, as they were.
C17_OnlyInvokedNodeWritten ==
    [][/\ \A i \in 1..Len(nodes) :
              (i <= Len(nodes') /\ nodes'[i].outputs # nodes[i].outputs) =>
                  /\ pc = "processing"
                  /\ pos <= Len(order)
                  /\ order[pos] = i - 1
       /\ (pc = "processing" /\ pos' = pos + 1) =>
              /\ Len(nodes') = Len(nodes)
              /\ \A i \in 1..Len(nodes) :
                     i # order[pos] + 1 => nodes'[i] = nodes[i]]_vars

\* The second node of the order is about to be invoked in the second block:
\* the first, its source, has just been rewritten while the second still
\* holds the nonzero block written before.
C17_Witness ==
    /\ pc = "processing"
    /\ blocks = 1
    /\ Len(order) = 2
    /\ pos = 2
    /\ written[order[1] + 1] = 2
    /\ written[order[2] + 1] = 1
    /\ \E e \in 1..Len(nodes[order[2] + 1].inputs) :
           nodes[order[2] + 1].inputs[e].src = order[1]
    /\ \E k \in 1..buffer_size : nodes[order[2] + 1].outputs[1][k] # 0

\* The index that Cycle mode's rule gives for a trigger at index with the
\* step sample step: (index + max(1, round(step))) mod n.
CycleRule(index, step, n) ==
    LET r == round(step, SelScale)
    IN (index + (IF r > 1 THEN r ELSE 1)) % n

\* The block that the rule gives from sample i on, the index before it given.
RECURSIVE CycleBlock(_, _, _, _, _, _)
CycleBlock(values, index, trigger, step, i, out) ==
    IF i >= SelLen THEN out
    ELSE LET next == IF 2 * GetOr(trigger, i, 0) > SelScale
                     THEN CycleRule(index, GetOr(step, i, SelScale), Len(values))
                     ELSE index
         IN CycleBlock(values, next, trigger, step, i + 1,
                       Append(out, values[next + 1]))

\* C18: a selector in Cycle mode over N >= 1 values: every process() call
\* returns a block in which each sample with the trigger above 0.5 has moved
\* the index to (index + max(1, round(step))) mod N and each sample is the
\* value at the current index; from a fresh selector with the trigger at 1.0
\* and the step at 1.0 on every sample, sample i is values[i mod N].
C18_CycleStepsByRoundedStep ==
    (/\ sel # Absent
     /\ sel.calls >= 1
     /\ sel.select.mode = "Cycle"
     /\ Len(sel.select.values) >= 1) =>
        /\ sel.state = "ready"
        /\ sel.out = CycleBlock(sel.select.values, sel.before.index,
                                sel.trigger, sel.step, 0, <<>>)
        /\ sel.ones =>
               \A j \in 0..(SelLen - 1) :
                   sel.out[j + 1] =
                       sel.select.values[
                           (((sel.calls - 1) * SelLen + j)
                               % Len(sel.select.values)) + 1]

\* The elements of the j-th run of n consecutive picks, and their number.
PoolPicks(picks, n, j) ==
    {picks[k] : k \in ((j - 1) * n + 1)..(IF j * n < Len(picks) THEN j * n
                                          ELSE Len(picks))}

PoolCount(picks, n, j) ==
    (IF j * n < Len(picks) THEN j * n ELSE Len(picks)) - (j - 1) * n

\* C19: a selector in Shuffle mode over N values whose triggers all had a
\* step size of 1: the indices picked by triggers 1..N, N+1..2N, ... are each
\* a permutation of 0..N-1, no index repeats within a run that is still
\* incomplete, and the pool holds exactly the indices the current run has
\* not yet picked (so it was refilled only when it was empty).
C19_ShufflePoolsArePermutations ==
    (/\ sel # Absent
     /\ sel.state = "ready"
     /\ sel.select.mode = "Shuffle"
     /\ Len(sel.select.values) >= 1
     /\ sel.unit) =>
        LET n == Len(sel.select.values)
            picks == sel.picks
            pool == sel.select.shuffle_remaining
            runs == (Len(picks) + n - 1) \div n
        IN /\ \A j \in 1..runs :
                  /\ PoolPicks(picks, n, j) \subseteq 0..(n - 1)
                  /\ Cardinality(PoolPicks(picks, n, j)) = PoolCount(picks, n, j)
           /\ \A j \in 1..(Len(picks) \div n) :
                  PoolPicks(picks, n, j) = 0..(n - 1)
           /\ Len(pool) = (n - (Len(picks) % n)) % n
           /\ NoRepeats(pool)
           /\ Len(picks) % n # 0 =>
                  Range(pool) = (0..(n - 1)) \ PoolPicks(picks, n, runs)
           /\ Len(picks) >= 1 => sel.select.index = picks[Len(picks)]

\* Four triggers with step size 1 over three values: the first pool was
\* emptied and a second one shuffled, and one of its indices picked.
C19_Witness ==
    /\ sel # Absent
    /\ sel.state = "ready"
    /\ sel.select.mode = "Shuffle"
    /\ Len(sel.select.values) = 3
    /\ sel.unit
    /\ Len(sel.picks) = 4
    /\ Len(sel.select.shuffle_remaining) = 2
    /\ SubSeq(sel.picks, 1, 3) # <<0, 1, 2>>

\* The stage lengths of the envelope: attack A and release R samples.
AttackLength == StageLength(Held(env.attack_dur), 0, EnvScale)

ReleaseLength == StageLength(Held(env.release_dur), 0, EnvScale)

\* The ramp the claim states, k samples after the trigger's: (k+1)/A up to
\* 1.0 on the A-th sample, then 1 - j/R down to 0.0, then 0.0.
RampFromFirstSample(a, r, k) ==
    IF k + 1 <= a THEN Ratio(k + 1, a)
    ELSE IF k + 1 <= a + r THEN Ratio(r - (k + 1 - a), r)
    ELSE Whole(0)

\* The ramp that starts on the trigger's sample at 0.0: k/A up to 1.0 on
\* sample A, 1.0 once more, then 1 - j/R down to 0.0, then 0.0.
RampFromZero(a, r, k) ==
    IF k <= a THEN Ratio(k, a)
    ELSE IF k <= a + 1 + r THEN Ratio(r - (k - a - 1), r)
    ELSE Whole(0)

C21_IdleIsZero ==
    (env # Absent /\ env.envelope.phase = "Idle") =>
        env.envelope.current = Whole(0)

\* The value k samples after a trigger that found the value base, no
\* trigger since: base + (1 - base) k/A up to sample A, the value reached
\* there once more, from it down by j/R, and 0.0 from sample A+1+R on.
RampFrom(base, a, r, k) ==
    LET peak == RatAdd(base, RatSub(Whole(1), base))
    IN IF k <= a
       THEN RatAdd(base, RatMul(RatSub(Whole(1), base), Ratio(k, a)))
       ELSE IF k < a + 1 + r
       THEN RatAdd(peak, RatMul(RatSub(Whole(0), peak), Ratio(k - a - 1, r)))
       ELSE Whole(0)

\* C22 as stated: over a run of consecutive samples with the trigger above
\* 0.5 one Attack stage is started, on the first of them: the samples
\* written since the run began are the ramp from its first sample.
C22_AttackStartsOnRisingEdge ==
    env # Absent =>
        \A j \in 1..Len(env.edge_pulse) :
            env.edge_pulse[j] =
                RampFrom(env.base, AttackLength, ReleaseLength, j - 1)

\* C22: every sample with the trigger above 0.5 starts the Attack stage
\* anew from the current value: over a run of such samples the output stays
\* at the value it had before the run, and the ramp proceeds from the last
\* sample of the run.
C22_AttackStartsOnEveryHighSample ==
    env # Absent =>
        \A j \in 1..Len(env.edge_pulse) :
            env.edge_pulse[j] =
                IF j <= env.run THEN env.base
                ELSE RampFrom(env.base, AttackLength, ReleaseLength,
                              j - env.run)

\* A run of three samples with the trigger high, from the value 0.0, attack
\* 2: the output is still 0.0 on the third and reaches 1.0 two samples later.
C22_Witness ==
    /\ env # Absent
    /\ env.run = 3
    /\ env.base = Whole(0)
    /\ AttackLength = 2
    /\ Len(env.edge_pulse) >= 6
    /\ env.edge_pulse[3] = Whole(0)
    /\ env.edge_pulse[4] = Ratio(1, 2)
    /\ env.edge_pulse[5] = Whole(1)
    /\ env.edge_pulse[6] = Whole(1)


\* ---- C23 ----
IsBp == gen # Absent /\ gen.state = "breakpoint"

\* Sample k of the last block moved the pulse counter: it made a draw or
\* left the counter one higher.
Counted(k) ==
    \/ Drew(gen.block, k)
    \/ After(gen.block, k).pulse_counter
          = gen.block.befores[k].pulse_counter + 1

\* Sample k of the last block is above 0.5 and the sample before it, in
\* this block or at the end of the block before, was not.
Rising(k) ==
    /\ gen.block.highs[k]
    /\ ~(IF k = 1 THEN gen.last_high ELSE gen.block.highs[k - 1])

\* C23 as stated: UGEnvBreakPoint counts a pulse only on a rising edge of the
\* clock, so that a clock held above 0.5 over consecutive samples counts once.
C23_CountsRisingEdges ==
    IsBp => \A k \in 1..Len(gen.block.out) : Counted(k) <=> Rising(k)

\* C23, amended: UGEnvBreakPoint counts a pulse on every sample whose clock is
\* above 0.5 and on no other: a clock held above 0.5 over k consecutive
\* samples counts as k pulses.
C23_CountsEveryHighSample ==
    IsBp => \A k \in 1..Len(gen.block.out) : Counted(k) <=> gen.block.highs[k]

\* A held clock was counted on two samples in a row.
C23_Witness ==
    /\ IsBp
    /\ \E k \in 2..Len(gen.block.out) :
          /\ gen.block.highs[k - 1] /\ gen.block.highs[k]
          /\ Counted(k - 1) /\ Counted(k)
          /\ ~Drew(gen.block, k)


\* ---- C28 ----
\* The draws logged from the k-th on are those of the two selectors dur and
\* lev stepped by the step sizes logged.
RECURSIVE DrawnInTurn(_, _, _, _)
DrawnInTurn(dur, lev, draws, k) ==
    IF k > Len(draws) THEN TRUE
    ELSE LET d == select_next(dur, draws[k].step, BpScale)
             l == select_next(lev, draws[k].step, BpScale)
         IN /\ draws[k].required = PulsesOf(d.value, BpScale)
            /\ draws[k].level = l.value
            /\ DrawnInTurn(d.state, l.state, draws, k + 1)

\* C28: UGEnvBreakPoint holds each level for exactly the drawn number of
\* pulses. The first pulse draws; the k-th draw takes the k-th value of the
\* duration selector, as max(1, round(value)) pulses, and the k-th value of
\* the level selector together; the next draw falls on the pulse that is
\* that many pulses later; the output is the level of the latest draw
\* (0.0 before the first) and changes on no sample that does not draw.
C28_HoldsEachLevelForDrawnPulses ==
    IsBp =>
      LET r == gen.block
          n == Len(gen.draws)
      IN /\ DrawnInTurn(gen.fresh.duration_select, gen.fresh.level_select,
                        gen.draws, 1)
         /\ \A k \in 1..n :
               IF k < n THEN gen.draws[k].pulses = gen.draws[k].required
               ELSE gen.draws[k].pulses < gen.draws[k].required
         /\ (n = 0) => (gen.envelope.current = 0
                        /\ \A k \in 1..Len(r.out) : ~r.highs[k] /\ r.out[k] = 0)
         /\ (n > 0) => gen.envelope.current = gen.draws[n].level
         /\ \A k \in 1..Len(r.out) :
               /\ r.out[k] = (IF k < Len(r.out) THEN r.befores[k + 1].current
                              ELSE r.state.current)
               /\ r.out[k] # r.befores[k].current => Drew(r, k)

\* Three draws have been made, the second held over at least two pulses
\* with a sample without a pulse in the last block.
C28_Witness ==
    /\ IsBp
    /\ Len(gen.draws) >= 3
    /\ gen.draws[2].required >= 2
    /\ gen.draws[2].level # gen.draws[3].level
    /\ \E k \in 1..Len(gen.block.out) : ~gen.block.highs[k]


\* ---- C24 ----
IsPs == gen # Absent /\ gen.state = "pulse_select"

\* The runs logged from the k-th on have the lengths the selector dur gives
\* when stepped by the step sizes logged.
RECURSIVE RunsInTurn(_, _, _)
RunsInTurn(dur, runs, k) ==
    IF k > Len(runs) THEN TRUE
    ELSE LET d == select_next(dur, runs[k].step, BpScale)
         IN /\ runs[k].target = PulsesOf(d.value, BpScale)
            /\ RunsInTurn(d.state, runs, k + 1)

\* C24: UGPulseSelect writes 1.0 exactly on the first pulse of each run and
\* 0.0 on every other sample; a run is L pulses, L = max(1, round(value))
\* drawn from the duration selector once per run, so that consecutive 1.0
\* samples are exactly L pulses apart.
C24_OneOnFirstPulseOfEachRun ==
    IsPs =>
      LET r == gen.block
          n == Len(gen.runs)
      IN /\ \A k \in 1..Len(r.out) :
               /\ r.out[k] \in {0, BpScale}
               /\ r.out[k] = BpScale => r.highs[k]
         /\ RunsInTurn(gen.fresh.duration_select, gen.runs, 1)
         /\ \A k \in 1..n :
               IF k < n THEN gen.runs[k].pulses = gen.runs[k].target
               ELSE gen.runs[k].pulses <= gen.runs[k].target
         /\ (n = 0) => \A k \in 1..Len(r.out) : ~r.highs[k]

\* Three runs have started, the second of at least two pulses, with a
\* sample without a pulse in the last block.
C24_Witness ==
    /\ IsPs
    /\ Len(gen.runs) >= 3
    /\ gen.runs[2].target >= 2
    /\ \E k \in 1..Len(gen.block.out) : ~gen.block.highs[k]


\* ---- C25 ----
IsClk == gen # Absent /\ gen.state = "clock"

\* C25: a UGClock of period P samples with its gate unconnected writes 1.0
\* on absolute sample 0 and then exactly every P samples, 0.0 elsewhere,
\* across block boundaries and whatever the block length.
C25_PulsesEveryPeriod ==
    (IsClk /\ ~gen.connected) =>
        \A n \in 1..Len(gen.out) :
            gen.out[n] = (IF (n - 1) % gen.value = 0 THEN 1 ELSE 0)


\* ---- C26 ----
\* Every sample written with the gate at or below 0.5 is 0.0 and leaves the
\* phase as it was.
GatedOffSamplesHold ==
    \A n \in 1..Len(gen.out) :
        ~gen.on[n] => (gen.out[n] = 0 /\ gen.after[n] = gen.before[n])

\* Samples s and t carry two pulses in a row with s before t.
NextPulse(s, t) ==
    /\ s < t
    /\ gen.out[s] = 1
    /\ gen.out[t] = 1
    /\ \A n \in (s + 1)..(t - 1) : gen.out[n] = 0

\* C26: on every sample whose gate is connected and at or below 0.5 the
\* clock writes 0.0 and leaves its phase unchanged, so that the interval
\* from one pulse to the next is the period extended by exactly the number
\* of gated-off samples between them.
C26_GateHoldsPhase ==
    (IsClk /\ gen.connected) =>
        /\ GatedOffSamplesHold
        /\ \A s, t \in 1..Len(gen.out) :
              (NextPulse(s, t) /\ \E n \in (s + 1)..(t - 1) : ~gen.on[n])
                  => t - s = gen.value
                             + Cardinality({n \in (s + 1)..(t - 1) : ~gen.on[n]})


\* ---- C27 ----
\* C27: UGSum::new fails for an input count of 0 or 1; for every count N of
\* 2 or more it succeeds and the generator has exactly the N input ports
\* in1 .. inN, in that order, and one output port.
C27_SumNeedsTwoInputs ==
    (gen # Absent /\ gen.state = "sum") =>
        /\ gen.input_count < 2 => gen.panicked
        /\ gen.input_count >= 2 =>
              /\ ~gen.panicked
              /\ gen.input_names
                   = [i \in 1..gen.input_count |-> S_in \o Decimal(i)]
              /\ Len(gen.output_names) = 1


\* ---- C29 ----
\* x <= y for two values that are numbers.
RatLe(x, y) == ~IsNaN(x) /\ ~IsNaN(y) /\ x.num * y.den <= y.num * x.den

\* The samples since the last trigger rise from the value v toward 1.0 over
\* the attack: v on the trigger's sample, v + (1 - v) j/A on the j-th after
\* it, 1.0 on the A-th, never below v and never falling.
RisesFrom(v) ==
    \A k \in 1..Len(env.pulse) :
        k <= AttackLength + 1 =>
            /\ env.pulse[k] = RatAdd(v, RatMul(RatSub(Whole(1), v),
                                               Ratio(k - 1, AttackLength)))
            /\ RatLe(v, env.pulse[k])
            /\ RatLe(env.pulse[k], Whole(1))
            /\ k > 1 => RatLe(env.pulse[k - 1], env.pulse[k])
            /\ k = AttackLength + 1 => env.pulse[k] = Whole(1)
            /\ env.pulse[k] = Whole(0) => v = Whole(0)

\* C29: a trigger that arrives while the envelope is in its Attack or its
\* Release stage restarts the Attack from the current value: the output on
\* and after the trigger's sample rises from that value toward 1.0 and does
\* not jump back to 0.0.
C29_RetriggerRisesFromCurrent ==
    (env # Absent /\ env.pulse # <<>> /\ env.from_phase \in {"Attack", "Release"})
        => RisesFrom(env.from)


\* ---- C30 ----
\* s = max(1, round(step)) of the step sample step.
WalkStep(step) ==
    LET r == round(step, SelScale)
    IN IF r > 1 THEN r ELSE 1

\* The block out, from sample i on, is one that the rule of Walk mode
\* allows from the index given, and it ends at the index last: every sample
\* with the trigger above 0.5 moves the index to (index + s) mod n or to
\* (index - s) mod n and every sample is the value at the current index.
RECURSIVE WalkBlock(_, _, _, _, _, _, _)
WalkBlock(values, index, trigger, step, i, out, last) ==
    IF i >= SelLen THEN index = last
    ELSE IF 2 * GetOr(trigger, i, 0) > SelScale
    THEN \E next \in {(index + WalkStep(GetOr(step, i, SelScale))) % Len(values),
                      (index - WalkStep(GetOr(step, i, SelScale))) % Len(values)} :
             /\ out[i + 1] = values[next + 1]
             /\ WalkBlock(values, next, trigger, step, i + 1, out, last)
    ELSE /\ out[i + 1] = values[index + 1]
         /\ WalkBlock(values, index, trigger, step, i + 1, out, last)

\* C30: a selector in Walk mode over N values: on every trigger the new
\* index is (index + s) mod N or (index - s) mod N with s = max(1,
\* round(step)), the modulo being the non-negative one, so that the index
\* is never negative nor beyond the list.
C30_WalkStepsEitherWay ==
    (/\ sel # Absent
     /\ sel.calls >= 1
     /\ sel.select.mode = "Walk"
     /\ Len(sel.select.values) >= 1) =>
        /\ sel.state = "ready"
        /\ sel.select.index \in 0..(Len(sel.select.values) - 1)
        /\ WalkBlock(sel.select.values, sel.before.index, sel.trigger,
                     sel.step, 0, sel.out, sel.select.index)


\* ---- C31 ----
\* The samples of a block, from sample i on, whose trigger is above 0.5:
\* their triggers and their steps, in order.
RECURSIVE Hits(_, _, _, _)
Hits(trigger, step, i, acc) ==
    IF i >= SelLen THEN acc
    ELSE Hits(trigger, step, i + 1,
              IF 2 * GetOr(trigger, i, 0) > SelScale
              THEN [trigger |-> Append(acc.trigger, GetOr(trigger, i, 0)),
                    step |-> Append(acc.step, GetOr(step, i, SelScale))]
              ELSE acc)

\* The selector that the samples with an active trigger alone leave behind.
AfterHitsOnly ==
    UGSelect_process(sel.before,
                     Hits(sel.trigger, sel.step, 0,
                          [trigger |-> <<>>, step |-> <<>>]).trigger,
                     Hits(sel.trigger, sel.step, 0,
                          [trigger |-> <<>>, step |-> <<>>]).step,
                     SelScale,
                     Len(Hits(sel.trigger, sel.step, 0,
                              [trigger |-> <<>>, step |-> <<>>]).trigger)).state

\* C31: a sample whose trigger is not above 0.5, or is unconnected, leaves
\* the selector's index, shuffle pool and generator state as they were and
\* is written the value held since the most recent trigger, in every mode
\* and from one block to the next: the selector after a block is the one
\* that its triggered samples alone leave, and each untriggered sample
\* repeats the sample before it (the first of a block, the value at the
\* index the block before ended on).
C31_UntriggeredSamplesHold ==
    (sel # Absent /\ sel.state = "ready" /\ sel.calls >= 1) =>
        /\ sel.select = AfterHitsOnly
        /\ Len(sel.select.values) >= 1 =>
              \A i \in 1..SelLen :
                  ~(2 * GetOr(sel.trigger, i - 1, 0) > SelScale) =>
                      sel.out[i] = IF i = 1
                                   THEN sel.before.values[sel.before.index + 1]
                                   ELSE sel.out[i - 1]

\* A second block in Shuffle mode whose first sample alone is triggered,
\* with a pool that is not empty, after a block that moved the index.
C31_Witness ==
    /\ sel # Absent
    /\ sel.state = "ready"
    /\ sel.calls = 2
    /\ sel.select.mode = "Shuffle"
    /\ sel.trigger = <<2, 1>>
    /\ sel.before.index # 0
    /\ sel.select.shuffle_remaining # <<>>
    /\ sel.out[2] = sel.out[1]


\* ---- C32 ----
\* The step of sample i of the last block, a whole number of samples.
WholeStep(i) == GetOr(sel.step, i, SelScale) \div SelScale

\* The last block had the trigger at 1.0 and a whole step on both samples.
BlockOfTriggers ==
    /\ sel # Absent
    /\ sel.state = "ready"
    /\ sel.calls >= 1
    /\ sel.trigger = <<SelScale, SelScale>>
    /\ \A i \in 0..(SelLen - 1) : GetOr(sel.step, i, SelScale) % SelScale = 0

\* select_next did to the selector st what one trigger with the step does,
\* and returned the value at the index it moved to (0.0 without values).
OneTrigger(st, step, got) ==
    IF Len(st.values) = 0
    THEN got.state = st /\ got.value = 0
    ELSE /\ got.state = Advance(st, StepSize(<<step * SelScale>>, 0, SelScale))
         /\ got.value = st.values[got.state.index + 1]

\* C32: select_next(step) advances the selector by exactly one trigger and
\* returns the value that trigger selects; state and result are those of
\* processing one sample with the trigger at 1.0 and the step given, so
\* that a block of two such samples is two calls of select_next.
C32_SelectNextIsOneTrigger ==
    BlockOfTriggers =>
        /\ OneTrigger(sel.before, WholeStep(0),
                      select_next(sel.before, WholeStep(0), SelScale))
        /\ select_next(select_next(sel.before, WholeStep(0), SelScale).state,
                       WholeStep(1), SelScale).state = sel.select
        /\ sel.out = <<select_next(sel.before, WholeStep(0), SelScale).value,
                       select_next(
                           select_next(sel.before, WholeStep(0), SelScale).state,
                           WholeStep(1), SelScale).value>>

\* A second block of two triggers in Walk mode over three values, the
\* first with a step of 8.0, that ended on another index than it began.
C32_Witness ==
    /\ BlockOfTriggers
    /\ sel.calls = 2
    /\ sel.select.mode = "Walk"
    /\ Len(sel.select.values) = 3
    /\ sel.step # <<>>
    /\ WholeStep(0) = 8
    /\ sel.select.index # sel.before.index


\* ---- C33 ----
IsSum == gen # Absent /\ gen.state = "sum"

\* C33: a UGSum with N >= 2 connected inputs writes on every sample i the
\* sum of sample i of all N inputs, and for N = 2 the two-operand path
\* gives what accumulating the inputs one by one gives.
C33_SumAddsEveryInput ==
    (IsSum /\ gen.calls >= 1 /\ Len(gen.input_names) >= 2) =>
        /\ \A i \in 1..Len(gen.out) :
              gen.out[i] = ((Len(gen.input_names) + 1) \div 2) * gen.odd[i]
                           + (Len(gen.input_names) \div 2) * gen.even[i]
        /\ Len(gen.out) = Len(gen.odd)
        /\ Len(gen.input_names) = 2 =>
              gen.out = [i \in 1..Len(gen.odd) |->
                            SumAt(<<gen.odd, gen.even>>, 2, i)]

\* Five inputs, <<1, 2>> on three of them and <<1, 0>> on two: <<5, 6>>.
C33_Witness ==
    /\ IsSum
    /\ Len(gen.input_names) = 5
    /\ gen.odd = <<1, 2>>
    /\ gen.even = <<1, 0>>
    /\ gen.out = <<5, 6>>


\* ---- C34 ----
\* C34: for every generator and every input port it declares, what process
\* takes for the port when it is unconnected is default_input(port) where
\* that is a value and 0 where it is none, so that the default that
\* describe_json reports is the value used.
C34_DefaultIsTheValueUsed ==
    (gen # Absent /\ gen.state = "probe") =>
        \A p \in 1..Len(gen.slices) :
            gen.slices[p] = <<>> =>
                \A k \in 1..buffer_size :
                    gen.reads[p][k].read =>
                        /\ ~gen.reads[p][k].panicked
                        /\ gen.reads[p][k].value
                             = (IF gen.defaults[p].some
                                THEN gen.defaults[p].value ELSE 0)


\* ---- C35 ----
\* C35: while every per-sample increment of a UGSine lies in [0, 1], the
\* phase lies in [0, 1) after every sample, the trigger output is 1.0 on
\* the samples whose accumulator reached 1 and was reduced and 0.0 on the
\* others, and with one frequency that divides the sample rate successive
\* trigger pulses are sample_rate / freq samples apart.
IsSine == gen # Absent /\ gen.state = "sine"

IncrementsInRange ==
    \A f \in gen.freqs : f <= gen.sample_rate

C35_PhaseStaysBelowOne ==
    (IsSine /\ IncrementsInRange) =>
        /\ \A k \in 1..Len(gen.run) :
               /\ gen.run[k].phase >= 0
               /\ gen.run[k].phase < One
               /\ gen.run[k].trigger = (IF gen.run[k].sum >= One
                                           /\ gen.run[k].phase
                                                = gen.run[k].sum - One
                                        THEN One ELSE 0)
        /\ \A f \in gen.freqs :
               (gen.freqs = {f} /\ f > 0 /\ gen.sample_rate % f = 0) =>
                   gen.gaps \subseteq {gen.sample_rate \div f}


\* ---- C36 ----
\* C36: in every reachable graph the node at position i of the node list has
\* id i, the id add_node returns (the id it stores in the node it pushes) is
\* the number of nodes registered before the call, the name index has one
\* entry per node and maps each registered name to the position of the node
\* that carries it, and no call changes the id or the name of a node.
IdsArePositions(ns, index) ==
    /\ \A i \in 1..Len(ns) :
           /\ ns[i].id = i - 1
           /\ ns[i].name \in DOMAIN index
           /\ index[ns[i].name] = i - 1
    /\ DOMAIN index = {ns[i].name : i \in 1..Len(ns)}
    /\ Cardinality(DOMAIN index) = Len(ns)

C36_IdsArePositions ==
    [][/\ IdsArePositions(nodes', name_to_node_id')
       /\ Len(nodes') \in {Len(nodes), Len(nodes) + 1}
       /\ Len(nodes') = Len(nodes) + 1 => nodes'[Len(nodes')].id = Len(nodes)
       /\ \A i \in 1..Len(nodes) :
              /\ nodes'[i].id = nodes[i].id
              /\ nodes'[i].name = nodes[i].name]_vars

C36_Witness ==
    /\ Len(nodes) = MaxNodes
    /\ EdgePairs(nodes) # {}
    /\ blocks >= 1
    /\ IdsArePositions(nodes, name_to_node_id)


\* ---- C37 ----
\* C37: in every reachable graph each node owns one buffer per output port
\* its generator declares, every buffer is buffer_size samples long, a
\* buffer holds zeros from the registration of its node until the first
\* process() call that processes the node, and no call changes the number
\* or the length of the buffers of a node.
BuffersAsDeclared(ns, wr) ==
    \A i \in 1..Len(ns) :
        /\ Len(ns[i].outputs) = Len(output_names(ns[i].kind))
        /\ \A o \in 1..Len(ns[i].outputs) :
               /\ Len(ns[i].outputs[o]) = buffer_size
               /\ wr[i] = 0 =>
                      \A k \in 1..buffer_size : ns[i].outputs[o][k] = 0

C37_BuffersAsDeclared ==
    [][/\ BuffersAsDeclared(nodes', written')
       /\ \A i \in 1..Len(nodes) :
              /\ Len(nodes'[i].outputs) = Len(nodes[i].outputs)
              /\ \A o \in 1..Len(nodes[i].outputs) :
                     Len(nodes'[i].outputs[o]) = Len(nodes[i].outputs[o])]_vars

C37_Witness ==
    /\ blocks >= 1
    /\ BuffersAsDeclared(nodes, written)
    /\ \E i, j \in 1..Len(nodes) :
           /\ written[i] >= 1
           /\ \E k \in 1..buffer_size : nodes[i].outputs[1][k] # 0
           /\ written[j] = 0


\* ---- C38 ----
\* C38: in every reachable graph every edge stored on a node names a
\* registered source node, an output index below the number of outputs of
\* the source's generator and an input index below the number of inputs of
\* the destination's generator, and no two edges of one node share an input
\* index, so that a node has at most as many edges as declared inputs.
EdgesAreValid ==
    \A d \in 1..Len(nodes) :
        /\ \A k \in 1..Len(nodes[d].inputs) :
               /\ nodes[d].inputs[k].src >= 0
               /\ nodes[d].inputs[k].src < Len(nodes)
               /\ nodes[d].inputs[k].output_index >= 0
               /\ nodes[d].inputs[k].output_index
                    < Len(output_names(nodes[nodes[d].inputs[k].src + 1].kind))
               /\ nodes[d].inputs[k].input_index >= 0
               /\ nodes[d].inputs[k].input_index
                    < Len(input_names(nodes[d].kind))
        /\ \A k, l \in 1..Len(nodes[d].inputs) :
               nodes[d].inputs[k].input_index = nodes[d].inputs[l].input_index
                   => k = l
        /\ Len(nodes[d].inputs) <= Len(input_names(nodes[d].kind))

C38_EdgesAreValid == EdgesAreValid

C38_Witness ==
    /\ EdgesAreValid
    /\ result = "ConnectionError"
    /\ \E d \in 1..Len(nodes) :
           /\ Len(nodes[d].inputs) = 2
           /\ Len(nodes[d].inputs) = Len(input_names(nodes[d].kind))


\* ---- C39 ----
\* C39: nodes and edges are only ever appended, and process() keeps the
\* topology: no call removes or reorders a node or an edge, and a process()
\* call leaves the node list, every edge list and the name index as they
\* were. (sample_rate and buffer_size are fixed when the graph is made.)
IsPrefix(s, t) == Len(s) <= Len(t) /\ SubSeq(t, 1, Len(s)) = s

SameNode(a, b) == a.id = b.id /\ a.name = b.name /\ a.kind = b.kind

C39_AppendOnly ==
    [][/\ Len(nodes) <= Len(nodes')
       /\ \A i \in 1..Len(nodes) :
              /\ SameNode(nodes[i], nodes'[i])
              /\ IsPrefix(nodes[i].inputs, nodes'[i].inputs)
       /\ (pc = "processing" \/ pc' = "processing") =>
              /\ Len(nodes') = Len(nodes)
              /\ \A i \in 1..Len(nodes) : nodes'[i].inputs = nodes[i].inputs
              /\ name_to_node_id' = name_to_node_id]_vars

C39_Witness ==
    /\ blocks = MaxBlocks
    /\ EdgeCount(nodes) = MaxEdges
    /\ Len(nodes) = MaxNodes
    /\ \E i \in 1..Len(nodes) : written[i] = MaxBlocks


\* ---- C40 ----
\* C40: a UGSelect with a non-empty value list has 0 <= index < N after
\* every sample it processes, in every mode and for every trigger and step
\* input, so that no lookup of a value is out of range; with an empty list
\* it writes 0.0 to every sample and looks nothing up.
InRange(index, values) == index >= 0 /\ index < Len(values)

C40_IndexInRange ==
    sel # Absent =>
        IF Len(sel.select.values) >= 1
        THEN /\ InRange(sel.select.index, sel.select.values)
             /\ \A k \in 1..Len(sel.picks) :
                    InRange(sel.picks[k], sel.select.values)
             /\ \A k \in 1..Len(sel.out) :
                    \E j \in 1..Len(sel.select.values) :
                        sel.out[k] = sel.select.values[j]
        ELSE /\ sel.picks = <<>>
             /\ sel.calls >= 1 => sel.out = [k \in 1..SelLen |-> 0]

C40_Witness ==
    /\ sel # Absent
    /\ sel.state = "ready"
    /\ sel.select.mode = "Walk"
    /\ Len(sel.select.values) = 3
    /\ Len(sel.picks) >= 2
    /\ \E k \in 1..Len(sel.step) : sel.step[k] = 2 * (UsizeMax + 1)
    /\ C40_IndexInRange

====
